---- MODULE Spec2Model ----
(***************************************************************************)
(* Model of the quiche bootstrapper's update engine: the directory         *)
(* utilities of quiche/src/io/disk.rs, the updater entry points of         *)
(* quiche/src/lib.rs (validate, verify, apply) and the orchestration of    *)
(* bootstrapper/src/main.rs (run, handler).                                *)
(***************************************************************************)
EXTENDS Integers, Sequences, FiniteSets, TLC

VARIABLES
    install,        \* the directory tree at update.install_info.path
    backup,         \* temp_dir()/Rainway_Backup_{version}
    stage,          \* temp_dir()/Rainway_Stage_{version}
    pkg,            \* the entries of the downloaded package archive
    apc,            \* position of the worker inside updater::apply
    result,         \* what updater::apply returned
    pre,            \* the install tree when apply was entered
    failed_step,    \* which destructive step returned Err ("none", "clear", "commit")
    rollback,       \* outcome of the rollback move_dir ("none", "ok", "failed")
    registry_version, \* DisplayVersion in the uninstall registry key
    posted,         \* the body the update endpoint received from post_update
    installed,      \* the uninstall key of the application exists (is_installed)
    elevated,       \* is_elevated() && is_run_as_admin() of this process
    update,         \* the ActiveUpdate of run(): update_type, manifest, install_info
    rpc,            \* position of the main thread inside run()
    run_result,     \* how run() ended
    launched,       \* launch_rainway was called
    valid,          \* what update.validate() returned
    listing,        \* what get_dir_files returned inside validate
    workers,        \* the number of running run_async threads of each task
    spawned,        \* the number of threads spawned so far
    reported,       \* the callbacks the workers have dispatched to the page
    download,       \* the file temp_dir()/temp_name: whether it opens, its digest
    vpc,            \* position of the worker inside updater::verify
    verify_result,  \* what updater::verify returned
    dpc,            \* position of the worker inside download_file
    total_size,     \* Content-Length of the HEAD response
    received,       \* bytes the body of the GET response has delivered
    total_downloaded_bytes, \* bytes written to the file so far
    file_len,       \* length of the file temp_dir()/temp_name
    progress,       \* the last (total, downloaded) pair given to the callback
    download_result, \* what download_file returned
    procs,          \* the bootstrapper processes: where each is, its image name
    disk_op,        \* the disk.rs function that was called on its own
    disk_ok,        \* whether that call returned Ok
    pre_from,       \* the source tree when that call was entered
    disk_prev,      \* what the call before that call returned
    ipc,            \* position of the worker inside updater::install
    install_result, \* what updater::install returned
    setup_id,       \* SetupId of the application's registry key
    setup_state,    \* SetupState of the application's registry key
    install_posted, \* the body the install endpoint received from post_install
    verified,       \* the digest of the temp file that verify accepted last
    extracted,      \* the digest of the temp file that apply or install read, and
                    \* the digest verify had accepted by then
    tpc,            \* position of download_file (threaded variant)
    ppc,            \* position of the progress-polling thread
    record,         \* the shared UpdateDownloadProgress
    body,           \* the bytes the GET response will still deliver
    threaded_result, \* what download_with_callback (threaded variant) returned
    polled,         \* the arguments of the last call of the progress callback
    hygiene,        \* whether unblock_path, take_ownership_of_dir and
                    \* grant_full_permissions ran and all three succeeded
    siblings,       \* the bootstrapper executable and its _old and _new files
    siblings_pre,   \* these files when swap_files or the first launch began
    same_dir,       \* whether the executable runs from the install path
    care            \* what try_self_care returned, launch after launch

fsVars == <<install, backup, stage, pkg>>
applyVars == <<apc, result, pre, failed_step, rollback, registry_version, posted>>
runVars == <<installed, elevated, update, rpc, run_result, launched, valid,
             listing, workers, spawned, reported>>
verifyVars == <<download, vpc, verify_result>>
dlVars == <<dpc, total_size, received, total_downloaded_bytes, file_len, progress, download_result>>
guardVars == <<procs>>
diskVars == <<disk_op, disk_ok, pre_from, disk_prev>>
installVars == <<ipc, install_result, setup_id, setup_state, install_posted>>
trustVars == <<verified, extracted>>
pollVars == <<tpc, ppc, record, body, threaded_result, polled>>
careVars == <<siblings, siblings_pre, same_dir, care>>
moreVars == <<trustVars, pollVars, careVars, hygiene>>
otherVars == <<dlVars, guardVars, diskVars, installVars, moreVars>>

(***************************************************************************)
(* Bounds of the model.                                                    *)
(***************************************************************************)
\* number of ordinary (not ignored) file paths a tree can hold
MaxFiles == 2

\* the ordinary relative paths, in the order MaxFiles takes them
PlainPath == << <<"a.dll">>, <<"sub", "b.dll">>, <<"c.dll">> >>
PlainPaths == {PlainPath[i] : i \in 1..MaxFiles}

(***************************************************************************)
(* Paths and directory trees.  A relative path is the sequence of its      *)
(* components; a tree is the directory itself (exists), its files with     *)
(* their contents and its subdirectories.                                  *)
(***************************************************************************)
Root == <<>>

\* get_filename: the last component of a path
get_filename(p) == p[Len(p)]

Parent(p) == SubSeq(p, 1, Len(p) - 1)

\* the subdirectories a path lies in
Ancestors(p) == {SubSeq(p, 1, k) : k \in 1..(Len(p) - 1)}

EmptyFiles == [p \in {} |-> "old"]

NoTree == [exists |-> FALSE, files |-> EmptyFiles, dirs |-> {}]

Restrict(f, S) == [p \in S |-> f[p]]

FilesOf(t) == DOMAIN t.files

RemoveFiles(t, D) == [t EXCEPT !.files = Restrict(t.files, FilesOf(t) \ D)]

\* a tree built from a set of paths, all with the same content
TreeOf(paths, content) ==
    [exists |-> TRUE,
     files |-> [p \in paths |-> content],
     dirs |-> UNION {Ancestors(p) : p \in paths}]

(***************************************************************************)
(* updater::apply, the ignored file names (lib.rs 743-757).                *)
(***************************************************************************)
current_exe == "boot.exe"

ignored_files == {current_exe, "boot.log", "boot.exe_old", "boot.exe_new"}

\* the `ignored.any(|v| v == get_filename(path))` test of disk.rs
IsIgnored(p, ignored) == get_filename(p) \in ignored

NotIgnored(t, ignored) == {p \in FilesOf(t) : ~IsIgnored(p, ignored)}

(***************************************************************************)
(* disk.rs.  Every utility walks a tree in the order the OS lists it, and  *)
(* any file-system call in it can fail, so a utility is modelled by the    *)
(* set of its possible outcomes: a result (ok) and the trees it leaves.    *)
(* WalkDir entries that come back as errors are dropped by                 *)
(* `.filter_map(|e| e.ok())`: such a walk visits any subset of the         *)
(* entries.                                                                *)
(***************************************************************************)
Res(ok, from, to) == [ok |-> ok, from |-> from, to |-> to]

TreeRes(ok, t) == [ok |-> ok, tree |-> t]

ProperSubsets(S) == {D \in SUBSET S : D # S}

\* the sets of entries of S a walk may leave out: WalkDir reports an entry
\* it cannot read as Err, and `.filter_map(|e| e.ok())` drops it
WalkSkips(S) == SUBSET S

\* is_empty of disk.rs 112-116: read_dir yields no entry
IsEmptyDir(t, d) ==
    /\ \A p \in FilesOf(t) : Parent(p) # d
    /\ \A e \in t.dirs : Parent(e) # d

\* the directories the second walk of delete_dir_contents finds empty; the
\* walk yields the root itself and yields a directory before its children
EmptyDirs(t) ==
    IF t.exists THEN {d \in t.dirs \cup {Root} : IsEmptyDir(t, d)} ELSE {}

\* fs::remove_dir_all on a set of empty directories of t
RemoveDirs(t, D) ==
    IF Root \in D THEN NoTree ELSE [t EXCEPT !.dirs = @ \ D]

\* a variant of DeleteCandidates without the test of the ignored names
DeleteCandidates_all(t, ignored) == FilesOf(t)

\* the files the first walk of delete_dir_contents removes (disk.rs 99-109)
DeleteCandidates(t, ignored) == NotIgnored(t, ignored)

\* delete_dir_contents (disk.rs 98-123)
delete_dir_contents(t, ignored) ==
    LET cand == DeleteCandidates(t, ignored)
        \* first walk: every visited candidate removed, or remove_file failed
        files_ok == {RemoveFiles(t, cand \ skip) : skip \in WalkSkips(cand)}
        files_err == {RemoveFiles(t, done) : done \in ProperSubsets(cand)}
        \* second walk: empty directories removed, or remove_dir_all failed
        dirs_ok(u) == {RemoveDirs(u, EmptyDirs(u) \ skip) : skip \in WalkSkips(EmptyDirs(u))}
        dirs_err(u) == {RemoveDirs(u, done) : done \in ProperSubsets(EmptyDirs(u))}
    IN  {TreeRes(FALSE, u) : u \in files_err}
        \cup UNION {{TreeRes(TRUE, v) : v \in dirs_ok(u)} : u \in files_ok}
        \cup UNION {{TreeRes(FALSE, v) : v \in dirs_err(u)} : u \in files_ok}

\* the state after link_file succeeded for every file of P
Linked(from, to, P, copy_file) ==
    Res(TRUE,
        IF copy_file THEN from ELSE RemoveFiles(from, P),
        [to EXCEPT !.files = [q \in FilesOf(to) \cup P |->
                                 IF q \in P THEN from.files[q] ELSE to.files[q]]])

\* link_file (disk.rs 137-184) for the file p of `from`, written to the same
\* relative path of `to`
link_file(from, to, p, copy_file) ==
    LET parent_ok == to.exists /\ (Parent(p) = Root \/ Parent(p) \in to.dirs)
        done == Linked(from, to, {p}, copy_file)
    IN  \* remove_file(&to) failed
        {Res(FALSE, from, to)}
        \* get_procs_using_path, the rename test or copy failed
        \cup {Res(FALSE, from, RemoveFiles(to, {p}))}
        \* a move: copied, then remove_file(&from) failed
        \cup (IF parent_ok /\ ~copy_file THEN {Res(FALSE, from, done.to)} ELSE {})
        \cup (IF parent_ok THEN {done} ELSE {})

\* whether link_file can succeed for every file of P
Linkable(to, P) ==
    \A p \in P : to.exists /\ (Parent(p) = Root \/ Parent(p) \in to.dirs)

\* the files the second walk of move_dir_contents links (disk.rs 230-252)
MoveCandidates(t, ignored) == NotIgnored(t, ignored)

\* the file walk of move_dir_contents (disk.rs 230-252)
link_files(from, to, ignored, copy_contents) ==
    LET cand == MoveCandidates(from, ignored)
    IN  {Linked(from, to, cand \ skip, copy_contents) :
            skip \in {S \in WalkSkips(cand) : Linkable(to, cand \ S)}}
        \cup UNION {
               UNION {
                 {r \in link_file(Linked(from, to, done, copy_contents).from,
                                  Linked(from, to, done, copy_contents).to,
                                  f, copy_contents) : ~r.ok}
                 : done \in {D \in SUBSET (cand \ {f}) : Linkable(to, D)}}
               : f \in cand}

\* create_dir_all for a set of directories of `from` (disk.rs 218-228)
WithDirs(to, D) ==
    [exists |-> TRUE, files |-> to.files,
     dirs |-> to.dirs \cup D \cup UNION {Ancestors(d) : d \in D}]

\* the directory walk of move_dir_contents (disk.rs 218-228): the root entry
\* of `from` is always yielded, so `to` itself is created again
build_dirs(from, to) ==
    {TreeRes(TRUE, WithDirs(to, from.dirs \ skip)) : skip \in WalkSkips(from.dirs)}
    \cup {TreeRes(FALSE, to)}
    \cup {TreeRes(FALSE, WithDirs(to, D)) : D \in ProperSubsets(from.dirs)}

\* the target of move_dir_contents is created or emptied (disk.rs 210-216)
prepare_target(to, ignored) ==
    IF ~to.exists
    THEN {TreeRes(TRUE, [to EXCEPT !.exists = TRUE]), TreeRes(FALSE, to)}
    ELSE delete_dir_contents(to, ignored)

\* move_dir_contents (disk.rs 196-259)
move_dir_contents(from, to, ignored, copy_contents) ==
    IF ~from.exists
    THEN {Res(FALSE, from, to)}
    ELSE UNION {
           IF ~r.ok THEN {Res(FALSE, from, r.tree)}
           ELSE UNION {
                  IF ~d.ok THEN {Res(FALSE, from, d.tree)}
                  ELSE UNION {
                         IF ~f.ok \/ copy_contents THEN {f}
                         ELSE {Res(c.ok, c.tree, f.to) :
                                  c \in delete_dir_contents(f.from, ignored)}
                         : f \in link_files(from, d.tree, ignored, copy_contents)}
                  : d \in build_dirs(from, r.tree)}
           : r \in prepare_target(to, ignored)}

\* a variant of copy_dir that passes copy_contents = false
copy_dir_moving(from, to, ignored) == move_dir_contents(from, to, ignored, FALSE)

\* copy_dir (disk.rs 187-189)
copy_dir(from, to, ignored) == move_dir_contents(from, to, ignored, TRUE)

\* move_dir (disk.rs 191-193)
move_dir(from, to, ignored) == move_dir_contents(from, to, ignored, FALSE)

\* std::fs::remove_dir_all of a whole tree
remove_dir_all(t) ==
    {TreeRes(TRUE, NoTree)}
    \cup {TreeRes(FALSE, RemoveFiles(t, D)) : D \in SUBSET FilesOf(t)}

\* unzip (zip.rs 46-97): the entries of the archive are written below
\* `output` one after the other (P its file entries, D its directory
\* entries); nothing is created for an archive without entries
Extracted(output, archive, P, D) ==
    IF P = {} /\ D = {}
    THEN output
    ELSE [exists |-> TRUE,
          files |-> [q \in FilesOf(output) \cup P |->
                       IF q \in P THEN archive.files[q] ELSE output.files[q]],
          dirs |-> output.dirs \cup D \cup UNION {Ancestors(p) : p \in P \cup D}]

unzip(archive, output) ==
    {TreeRes(TRUE, Extracted(output, archive, FilesOf(archive), archive.dirs))}
    \cup {TreeRes(FALSE, Extracted(output, archive, P, {})) :
             P \in ProperSubsets(FilesOf(archive))}
    \cup {TreeRes(FALSE, output)}

(***************************************************************************)
(* download_file (net/http.rs 63-141).                                     *)
(***************************************************************************)
\* largest number of bytes of a remote file or of a local file in the model
MaxBytes == 3

\* Result<bool, BootstrapError> of download_file
NoDownloadResult == [ok |-> FALSE, complete |-> FALSE, error |-> "pending"]

DownloadErr(e) == [ok |-> FALSE, complete |-> FALSE, error |-> e]

DownloadOk(complete) == [ok |-> TRUE, complete |-> complete, error |-> "none"]

\* the download worker has not started
IdleDownload ==
    /\ dpc = "idle"
    /\ total_size = 0
    /\ received = 0
    /\ total_downloaded_bytes = 0
    /\ file_len = 0
    /\ progress = <<0, 0>>
    /\ download_result = NoDownloadResult

\* number of bootstrapper processes that are started
MaxProcs == 3

Procs == 1..MaxProcs

\* no bootstrapper process has been started; `matches` tells whether the image
\* name of a process is format!("{}.exe", env!("CARGO_PKG_VERSION"))
IdleGuard == procs = [p \in Procs |-> [st |-> "absent", matches |-> FALSE]]

\* no function of disk.rs has been called on its own
IdleDisk ==
    /\ disk_op = "none"
    /\ disk_ok = FALSE
    /\ pre_from = NoTree
    /\ disk_prev = FALSE

\* the state of the parts a specification does not exercise
\* RainwayAppState (lib.rs 987-992) and the registry before any setup ran
NoSetupId == ""

\* updater::install has not been called
IdleInstall ==
    /\ ipc = "idle"
    /\ install_result = [ok |-> FALSE, text |-> "none"]
    /\ setup_id = NoSetupId
    /\ setup_state = "Nothing"
    /\ install_posted = [sent |-> FALSE, uuid |-> "", version |-> ""]

\* no temp file was verified or read by apply
NoDigest == <<>>

NothingExtracted == [read |-> FALSE, digest |-> NoDigest, accepted |-> NoDigest]

IdleTrust ==
    /\ verified = NoDigest
    /\ extracted = NothingExtracted

\* UpdateDownloadProgress::default() (updater.rs 117-123)
DefaultProgress ==
    [state |-> "None", total_bytes |-> 0, downloaded_bytes |-> 0, faulted |-> FALSE]

\* download_with_callback of the threaded variant has not been called
IdlePoll ==
    /\ tpc = "idle"
    /\ ppc = "idle"
    /\ record = DefaultProgress
    /\ body = 0
    /\ threaded_result = [ok |-> FALSE, text |-> "none"]
    /\ polled = <<>>

\* the last steps of apply have not run
NoHygiene == [ran |-> FALSE, clean |-> FALSE]

IdleHygiene == hygiene = NoHygiene

\* the paths try_self_care and swap_files work on: the running executable,
\* {exe}_old and {exe}_new in the install path, and {exe}_old next to the
\* executable when it runs from another directory
SiblingNames == {"current", "old", "new", "side_old"}

NoSiblings == [n \in SiblingNames |-> "absent"]

\* try_self_care and swap_files have not been called
IdleCare ==
    /\ siblings = NoSiblings
    /\ siblings_pre = NoSiblings
    /\ same_dir = TRUE
    /\ care = <<>>

InitOther ==
    /\ IdleDownload
    /\ IdleGuard
    /\ IdleDisk
    /\ IdleInstall
    /\ IdleTrust
    /\ IdleCare
    /\ IdleHygiene
    /\ IdlePoll

(***************************************************************************)
(* Hashes: sha_256 (io/hash.rs), the ActiveUpdate getters and verify       *)
(* (lib.rs).  A digest is a sequence of 4-bit values, a hash string a      *)
(* sequence of characters.                                                 *)
(***************************************************************************)
\* number of hex digits of a digest in the model
MaxHexLen == 2

UpperHex == <<"0", "1", "2", "3", "4", "5", "6", "7", "8", "9",
              "A", "B", "C", "D", "E", "F">>

\* format!("{:X}", digest): every 4-bit value as an upper-case hex digit
format_upper_hex(digest) == [i \in 1..Len(digest) |-> UpperHex[digest[i] + 1]]

\* sha_256 (hash.rs 7-15): None when the file does not open, else the
\* upper-case hex digest of the bytes io::copy delivered
sha_256(file) ==
    IF file.exists
    THEN [some |-> TRUE, hash |-> format_upper_hex(file.digest)]
    ELSE [some |-> FALSE, hash |-> <<>>]

\* ActiveUpdate::get_ext (lib.rs 393-399)
get_ext(u) == IF u.update_type = "Install" THEN ".exe" ELSE ".zip"

\* ActiveUpdate::get_hash (lib.rs 407-412)
get_hash(u) ==
    IF u.update_type = "Install"
    THEN u.manifest.installer_hash
    ELSE u.manifest.package_hash

\* a variant of set_temp_file that always names the file after the package
set_temp_file_of_package(u) ==
    [u EXCEPT !.temp_name = u.manifest.package_hash \o <<".zip">>]

\* ActiveUpdate::set_temp_file (lib.rs 414-416)
set_temp_file(u) == [u EXCEPT !.temp_name = get_hash(u) \o <<get_ext(u)>>]

\* the hashes of the manifests of the model
PackageHash == <<"A", "1">>

InstallerHash == <<"1", "A">>

\* the tasks view.rs hands to run_async
Ops == {"download", "verify", "apply", "install"}

NoWorkers == [op \in Ops |-> 0]

(***************************************************************************)
(* Installation check: get_dir_files, dir_contains_all_files (disk.rs) and *)
(* ActiveUpdate::validate (lib.rs).                                        *)
(***************************************************************************)
NoListing == [ok |-> FALSE, files |-> {}]

\* strip_prefix(input) and to_str (disk.rs 37-42): the relative path as a
\* string, its components joined by the separator of the platform
to_str(p) == [path |-> p, sep |-> "\\"]

\* the strings a manifest may list for the files of a package: a nested path
\* may be written with either separator
ManifestEntries ==
    {to_str(p) : p \in PlainPaths}
        \cup {[path |-> p, sep |-> "/"] : p \in {q \in PlainPaths : Len(q) > 1}}

\* get_dir_files (disk.rs 22-49): Err when the path does not exist or when
\* the walk reports an entry as an error (`entry?`)
get_dir_files(t) ==
    IF ~t.exists
    THEN {NoListing}
    ELSE {[ok |-> TRUE, files |-> {to_str(p) : p \in FilesOf(t)}], NoListing}

\* a variant of dir_contains_all_files that asks for one file of the list
dir_contains_some_file(dir_files, files) ==
    IF dir_files.ok
    THEN \E file \in files : file \in dir_files.files
    ELSE FALSE

\* dir_contains_all_files (disk.rs 8-13), for what get_dir_files returned
dir_contains_all_files(dir_files, files) ==
    IF dir_files.ok
    THEN \A file \in files : file \in dir_files.files
    ELSE FALSE

\* validate_files (lib.rs 685-687)
validate_files(dir_files, target_files) ==
    dir_contains_all_files(dir_files, target_files)

\* a variant of validate that looks at the version only
validate_version_only(u, dir_files) ==
    u.install_info.version = u.manifest.version

\* ActiveUpdate::validate (lib.rs 422-428)
validate(u, dir_files) ==
    IF ~validate_files(dir_files, u.manifest.files)
    THEN FALSE
    ELSE u.install_info.version = u.manifest.version

(***************************************************************************)
(* updater::apply (lib.rs 737-884), one action per step of the worker.     *)
(***************************************************************************)
manifest_version == "2.0"

installed_version == "1.0"

\* nothing was posted to the update endpoint
NoPost == [sent |-> FALSE, version |-> "", lastVersion |-> ""]

NoResult == [ok |-> FALSE, error |-> "none", message |-> "pending"]

InstallationFailed(message) ==
    [ok |-> FALSE, error |-> "InstallationFailed", message |-> message]

Updated == [ok |-> TRUE, error |-> "none", message |-> "Rainway updated!"]

\* a variant of rollback_result that reports success once the backup is back
rollback_result_ok_when_restored(step, rollback_ok) ==
    IF rollback_ok
    THEN Updated
    ELSE InstallationFailed(IF step = "clear" THEN "delete_error" ELSE "update_error")

\* a variant of rollback_result with an error of its own for a failed rollback
rollback_result_fatal(step, rollback_ok) ==
    IF ~rollback_ok
    THEN InstallationFailed("rollback_error")
    ELSE InstallationFailed(IF step = "clear" THEN "delete_error" ELSE "update_error")

\* what apply returns after the rollback attempt (lib.rs 830-833, 848-853):
\* the message of the step that failed, whatever the rollback returned
rollback_result(step, rollback_ok) ==
    IF step = "clear"
    THEN InstallationFailed("delete_error")
    ELSE InstallationFailed("update_error")

Abort(message) ==
    /\ apc' = "done"
    /\ result' = InstallationFailed(message)

\* lib.rs 738-757: the paths and the ignored file names
ApplyStart ==
    /\ apc = "idle"
    /\ pre' = install
    /\ \/ apc' = "clean_stage" /\ UNCHANGED result
       \/ Abort("current_exe_error")
    /\ UNCHANGED <<fsVars, failed_step, rollback, registry_version, posted>>
    /\ UNCHANGED <<runVars, verifyVars, otherVars>>

\* lib.rs 761-772: a staging folder left by an earlier attempt is removed
CleanStage ==
    /\ apc = "clean_stage"
    /\ IF stage.exists
       THEN \E r \in remove_dir_all(stage) :
               /\ stage' = r.tree
               /\ IF r.ok
                  THEN apc' = "clean_backup" /\ UNCHANGED result
                  ELSE Abort("stage_clean_error")
       ELSE apc' = "clean_backup" /\ UNCHANGED <<stage, result>>
    /\ UNCHANGED <<install, backup, pkg, pre, failed_step, rollback, registry_version, posted>>
    /\ UNCHANGED <<runVars, verifyVars, otherVars>>

\* a variant of CleanBackup that goes on to the backup without removing the
\* folder an earlier attempt left
CleanBackup_keeps ==
    /\ apc = "clean_backup"
    /\ apc' = "backup"
    /\ UNCHANGED <<backup, result>>
    /\ UNCHANGED <<install, stage, pkg, pre, failed_step, rollback, registry_version, posted>>
    /\ UNCHANGED <<runVars, verifyVars, otherVars>>

\* lib.rs 774-789: a backup folder left by an earlier attempt is removed
CleanBackup ==
    /\ apc = "clean_backup"
    /\ IF backup.exists
       THEN \E r \in remove_dir_all(backup) :
               /\ backup' = r.tree
               /\ IF r.ok
                  THEN apc' = "backup" /\ UNCHANGED result
                  ELSE Abort("backup_clean_error")
       ELSE apc' = "backup" /\ UNCHANGED <<backup, result>>
    /\ UNCHANGED <<install, stage, pkg, pre, failed_step, rollback, registry_version, posted>>
    /\ UNCHANGED <<runVars, verifyVars, otherVars>>

\* lib.rs 790-801: the installation is copied to the backup folder
Backup ==
    /\ apc = "backup"
    /\ \E r \in copy_dir(install, backup, ignored_files) :
          /\ install' = r.from
          /\ backup' = r.to
          /\ IF r.ok
             THEN apc' = "unzip" /\ UNCHANGED result
             ELSE Abort("backup_error")
    /\ UNCHANGED <<stage, pkg, pre, failed_step, rollback, registry_version, posted>>
    /\ UNCHANGED <<runVars, verifyVars, otherVars>>

\* lib.rs 802-813: the package is extracted to the staging folder
Unzip ==
    /\ apc = "unzip"
    /\ \E r \in unzip(pkg, stage) :
          /\ stage' = r.tree
          /\ IF r.ok
             THEN apc' = "clear" /\ UNCHANGED result
             ELSE Abort("unzip_error")
    /\ UNCHANGED <<install, backup, pkg, pre, failed_step, rollback, registry_version, posted>>
    /\ UNCHANGED <<runVars, verifyVars, otherVars>>

\* lib.rs 815-834: the install path is emptied
Clear ==
    /\ apc = "clear"
    /\ \E r \in delete_dir_contents(install, ignored_files) :
          /\ install' = r.tree
          /\ IF r.ok
             THEN apc' = "commit" /\ UNCHANGED failed_step
             ELSE apc' = "rollback" /\ failed_step' = "clear"
    /\ UNCHANGED <<backup, stage, pkg, result, pre, rollback, registry_version, posted>>
    /\ UNCHANGED <<runVars, verifyVars, otherVars>>

\* a variant of Commit that writes the version of the manifest before the
\* staged files are moved
Commit_versions ==
    /\ apc = "commit"
    /\ \E r \in move_dir(stage, install, ignored_files) :
          /\ stage' = r.from
          /\ install' = r.to
          /\ IF r.ok
             THEN apc' = "hygiene" /\ UNCHANGED failed_step
             ELSE apc' = "rollback" /\ failed_step' = "commit"
    /\ registry_version' = update.manifest.version
    /\ UNCHANGED <<backup, pkg, result, pre, rollback, posted>>
    /\ UNCHANGED <<runVars, verifyVars, otherVars>>

\* lib.rs 835-854: the staged files are moved into the install path
Commit ==
    /\ apc = "commit"
    /\ \E r \in move_dir(stage, install, ignored_files) :
          /\ stage' = r.from
          /\ install' = r.to
          /\ IF r.ok
             THEN apc' = "hygiene" /\ UNCHANGED failed_step
             ELSE apc' = "rollback" /\ failed_step' = "commit"
    /\ UNCHANGED <<backup, pkg, result, pre, rollback, registry_version, posted>>
    /\ UNCHANGED <<runVars, verifyVars, otherVars>>

\* lib.rs 830-833 and 848-853: the backup is moved back, then Err is returned
Rollback ==
    /\ apc = "rollback"
    /\ \E r \in move_dir(backup, install, ignored_files) :
          /\ backup' = r.from
          /\ install' = r.to
          /\ rollback' = IF r.ok THEN "ok" ELSE "failed"
          /\ result' = rollback_result(failed_step, r.ok)
    /\ apc' = "done"
    /\ UNCHANGED <<stage, pkg, pre, failed_step, registry_version, posted>>
    /\ UNCHANGED <<runVars, verifyVars, otherVars>>

\* ActiveUpdate::post_update (lib.rs 561-577): the body names
\* install_info.version as the version and old_version as the last version
post_update(u, old_version) ==
    [sent |-> TRUE, version |-> u.install_info.version, lastVersion |-> old_version]

\* a variant of Finish that returns an error when unblock, ownership or
\* permissions failed
Finish_strict ==
    /\ apc = "hygiene"
    /\ \E unblocked \in BOOLEAN, owned \in BOOLEAN, granted \in BOOLEAN :
          /\ hygiene' = [ran |-> TRUE, clean |-> unblocked /\ owned /\ granted]
          /\ result' = IF unblocked /\ owned /\ granted
                       THEN Updated
                       ELSE InstallationFailed("update_error")
    /\ \E written \in BOOLEAN :
          registry_version' = IF written THEN update.manifest.version
                                                 ELSE registry_version
    /\ \E delivered \in BOOLEAN :
          posted' = IF delivered
                    THEN post_update(update, update.install_info.version)
                    ELSE NoPost
    /\ apc' = "done"
    /\ UNCHANGED <<fsVars, pre, failed_step, rollback>>
    /\ UNCHANGED <<runVars, verifyVars, dlVars, guardVars, diskVars, installVars,
                   trustVars, pollVars, careVars>>

\* lib.rs 856-884: unblock, ownership and permissions are only logged;
\* update_display_version (lib.rs 432-441) logs a failed registry write;
\* post_update logs a failed post; Ok is returned
Finish ==
    /\ apc = "hygiene"
    /\ \E unblocked \in BOOLEAN, owned \in BOOLEAN, granted \in BOOLEAN :
          /\ hygiene' = [ran |-> TRUE, clean |-> unblocked /\ owned /\ granted]
          /\ result' = Updated
    /\ \E written \in BOOLEAN :
          registry_version' = IF written THEN update.manifest.version
                                                 ELSE registry_version
    /\ \E delivered \in BOOLEAN :
          posted' = IF delivered
                    THEN post_update(update, update.install_info.version)
                    ELSE NoPost
    /\ apc' = "done"
    /\ UNCHANGED <<fsVars, pre, failed_step, rollback>>
    /\ UNCHANGED <<runVars, verifyVars, dlVars, guardVars, diskVars, installVars,
                   trustVars, pollVars, careVars>>

(***************************************************************************)
(* The states apply can be entered in.                                     *)
(***************************************************************************)
\* files of the install path that carry an ignored name
IgnoredPaths == {<<"sub", "boot.exe">>}

\* what an earlier attempt may have left in the temp folder
StaleTree == TreeOf({<<"stale.bin">>}, "stale")

InstallTrees ==
    {NoTree} \cup {TreeOf(F, "old") : F \in SUBSET (PlainPaths \cup IgnoredPaths)}

PackageTrees ==
    {TreeOf(F, "new") : F \in SUBSET (PlainPaths \cup IgnoredPaths)}

Init ==
    /\ install \in InstallTrees
    /\ pkg \in PackageTrees
    /\ backup \in {NoTree, StaleTree}
    /\ stage \in {NoTree, StaleTree}
    /\ apc = "idle"
    /\ result = NoResult
    /\ pre = install
    /\ failed_step = "none"
    /\ rollback = "none"
    /\ registry_version = installed_version
    /\ posted = NoPost
    /\ installed = TRUE
    /\ elevated = TRUE
    /\ update = set_temp_file(
                    [update_type |-> "Patch",
                     manifest |-> [version |-> manifest_version,
                                   files |-> {to_str(p) : p \in FilesOf(pkg)},
                                   package_hash |-> PackageHash,
                                   installer_hash |-> InstallerHash],
                     temp_name |-> <<>>,
                     install_info |-> [loaded |-> TRUE, version |-> installed_version]])
    /\ download = [exists |-> TRUE, digest |-> <<10, 1>>]
    /\ vpc = "idle"
    /\ verify_result = NoResult
    /\ InitOther
    /\ rpc = "webview"
    /\ run_result = "none"
    /\ launched = FALSE
    /\ valid = "none"
    /\ listing = NoListing
    /\ workers = NoWorkers /\ spawned = 0
    /\ reported = {}

vars == <<install, backup, stage, pkg, apc, result, pre, failed_step, rollback,
          registry_version, posted, installed, elevated, update, rpc, run_result,
          launched, valid, listing, workers, spawned, reported, download, vpc,
          verify_result, dpc, total_size, received, total_downloaded_bytes, file_len,
          progress,
          download_result, procs, disk_op, disk_ok, pre_from, disk_prev,
          ipc, install_result, setup_id, setup_state, install_posted,
          verified, extracted, tpc, ppc, record, body, threaded_result, polled,
          hygiene, siblings, siblings_pre, same_dir, care>>

Next ==
    \/ ApplyStart
    \/ CleanStage
    \/ CleanBackup
    \/ Backup
    \/ Unzip
    \/ Clear
    \/ Commit
    \/ Rollback
    \/ Finish

Spec == Init /\ [][Next]_vars

(***************************************************************************)
(* run() and handler() of bootstrapper/src/main.rs, the workers of         *)
(* run_async (ui/callback.rs) and the commands of ui/view.rs.              *)
(***************************************************************************)
\* number of threads run_async spawns in one run of the model
MaxCommands == 3

Versions == {"1.0", "2.0"}

\* ActiveUpdate::default(): UpdateType::default() is Install
DefaultUpdate ==
    [update_type |-> "Install",
     manifest |-> [version |-> "", files |-> {},
                   package_hash |-> <<>>, installer_hash |-> <<>>],
     temp_name |-> <<>>,
     install_info |-> [loaded |-> FALSE, version |-> ""]]

\* the manifests the release server may serve
RemoteManifests ==
    [version : Versions, files : SUBSET ManifestEntries,
     package_hash : {PackageHash}, installer_hash : {InstallerHash}]

Ended(how) ==
    /\ rpc' = "ended"
    /\ run_result' = how

\* main.rs 69-72, rainway.rs 11-23: another bootstrapper process is running
RunGuard ==
    /\ rpc = "start"
    /\ \E duplicate \in BOOLEAN :
          IF duplicate
          THEN Ended("Err(BootstrapperExist)")
          ELSE rpc' = "detect" /\ UNCHANGED run_result
    /\ UNCHANGED <<fsVars, applyVars, verifyVars, otherVars, installed, elevated, update, launched,
                   valid, listing, workers, spawned, reported>>

\* a variant of RunDetect that leaves the update type of an installed
\* application at its default
RunDetect_keeps_type ==
    /\ rpc = "detect"
    /\ IF ~installed
       THEN /\ update' = [update EXCEPT !.update_type = "Install"]
            /\ rpc' = "compat"
            /\ UNCHANGED <<run_result, launched>>
       ELSE \E info_ok \in BOOLEAN, should_self_update \in BOOLEAN :
               IF ~info_ok
               THEN /\ launched' = TRUE
                    /\ Ended("Err(install_info)")
                    /\ UNCHANGED update
               ELSE IF should_self_update /\ ~elevated
               THEN /\ Ended("exit(0)")
                    /\ update' = [update EXCEPT !.install_info =
                                     [loaded |-> TRUE, version |-> registry_version]]
                    /\ UNCHANGED launched
               ELSE /\ update' = [update EXCEPT
                                     !.install_info =
                                         [loaded |-> TRUE, version |-> registry_version]]
                    /\ rpc' = "manifest"
                    /\ UNCHANGED <<run_result, launched>>
    /\ UNCHANGED <<fsVars, applyVars, verifyVars, otherVars, installed, elevated, valid, listing,
                   workers, spawned, reported>>

\* main.rs 82-106: install or patch; store_install_info (lib.rs 520-528);
\* the self update exits to be started again elevated
RunDetect ==
    /\ rpc = "detect"
    /\ IF ~installed
       THEN /\ update' = [update EXCEPT !.update_type = "Install"]
            /\ rpc' = "compat"
            /\ UNCHANGED <<run_result, launched>>
       ELSE \E info_ok \in BOOLEAN, should_self_update \in BOOLEAN :
               IF ~info_ok
               THEN /\ launched' = TRUE
                    /\ Ended("Err(install_info)")
                    /\ UNCHANGED update
               ELSE IF should_self_update /\ ~elevated
               THEN /\ Ended("exit(0)")
                    /\ update' = [update EXCEPT !.install_info =
                                     [loaded |-> TRUE, version |-> registry_version]]
                    /\ UNCHANGED launched
               ELSE /\ update' = [update EXCEPT
                                     !.install_info =
                                         [loaded |-> TRUE, version |-> registry_version],
                                     !.update_type = "Patch"]
                    /\ rpc' = "manifest"
                    /\ UNCHANGED <<run_result, launched>>
    /\ UNCHANGED <<fsVars, applyVars, verifyVars, otherVars, installed, elevated, valid, listing,
                   workers, spawned, reported>>

\* main.rs 110-113: check_system_compatibility for a fresh install
RunCompat ==
    /\ rpc = "compat"
    /\ \E compatible \in BOOLEAN :
          IF compatible
          THEN rpc' = "manifest" /\ UNCHANGED run_result
          ELSE Ended("Err(compatibility)")
    /\ UNCHANGED <<fsVars, applyVars, verifyVars, otherVars, installed, elevated, update, launched,
                   valid, listing, workers, spawned, reported>>

\* a variant of RunManifest that goes on without a manifest when the fetch
\* failed
RunManifest_continues ==
    /\ rpc = "manifest"
    /\ \/ \E m \in RemoteManifests :
             update' = set_temp_file([update EXCEPT !.manifest = m])
       \/ update' = set_temp_file(update)
    /\ rpc' = IF installed THEN "validate" ELSE "elevate"
    /\ UNCHANGED <<run_result, launched>>
    /\ UNCHANGED <<fsVars, applyVars, verifyVars, otherVars, installed, elevated, valid, listing,
                   workers, spawned, reported>>

\* main.rs 115-132: get_manifest (lib.rs 353-379; get_releases or
\* download_toml of http.rs 11-58 returned Err, or the manifest URL of the
\* branch is empty), then set_temp_file
RunManifest ==
    /\ rpc = "manifest"
    /\ \/ \E m \in RemoteManifests :
             /\ update' = set_temp_file([update EXCEPT !.manifest = m])
             /\ rpc' = IF installed THEN "validate" ELSE "elevate"
             /\ UNCHANGED <<run_result, launched>>
       \/ /\ IF installed
             THEN launched' = TRUE /\ Ended("Ok")
             ELSE UNCHANGED launched /\ Ended("Err(ReleaseLookupFailed)")
          /\ UNCHANGED update
    /\ UNCHANGED <<fsVars, applyVars, verifyVars, otherVars, installed, elevated, valid, listing,
                   workers, spawned, reported>>

\* a variant of RunValidate that goes on to the update of a valid installation
RunValidate_continues ==
    /\ rpc = "validate"
    /\ \E dir_files \in get_dir_files(install) :
          /\ listing' = dir_files
          /\ valid' = IF validate(update, dir_files) THEN "valid" ELSE "outdated"
          /\ rpc' = "elevate"
          /\ UNCHANGED <<run_result, launched>>
    /\ UNCHANGED <<fsVars, applyVars, verifyVars, otherVars, installed, elevated, update, workers, spawned, reported>>

\* main.rs 134-144: a valid installation is started and run() returns
RunValidate ==
    /\ rpc = "validate"
    /\ \E dir_files \in get_dir_files(install) :
          /\ listing' = dir_files
          /\ IF validate(update, dir_files)
             THEN /\ valid' = "valid"
                  /\ launched' = TRUE
                  /\ Ended("Ok")
             ELSE /\ valid' = "outdated"
                  /\ rpc' = "elevate"
                  /\ UNCHANGED <<run_result, launched>>
    /\ UNCHANGED <<fsVars, applyVars, verifyVars, otherVars, installed, elevated, update, workers, spawned, reported>>

\* main.rs 146-178: elevation, load_resources and the web view
RunElevate ==
    /\ rpc = "elevate"
    /\ IF ~elevated
       THEN Ended("exit(0)")
       ELSE \E built \in BOOLEAN :
               IF built
               THEN rpc' = "webview" /\ UNCHANGED run_result
               ELSE Ended("Err(WebView)")
    /\ UNCHANGED <<fsVars, applyVars, verifyVars, otherVars, installed, elevated, update, launched,
                   valid, listing, workers, spawned, reported>>

\* run_async (callback.rs 5-18): a thread is spawned for the task
run_async(op) == [workers EXCEPT ![op] = @ + 1]

\* handler "download" (main.rs 225-227), download_update (view.rs 45-69)
HandleDownload ==
    /\ rpc = "webview"
    /\ spawned < MaxCommands
    /\ spawned' = spawned + 1
    /\ workers' = run_async("download")
    /\ UNCHANGED <<fsVars, applyVars, verifyVars, otherVars, installed, elevated, update, rpc, run_result,
                   launched, valid, listing, reported>>

\* handler "verify" (main.rs 228-230), verify_update (view.rs 7-18)
HandleVerify ==
    /\ rpc = "webview"
    /\ spawned < MaxCommands
    /\ spawned' = spawned + 1
    /\ workers' = run_async("verify")
    /\ UNCHANGED <<fsVars, applyVars, verifyVars, otherVars, installed, elevated, update, rpc, run_result,
                   launched, valid, listing, reported>>

\* a variant of apply_task that always runs the patch procedure
apply_task_always_patch(update_type) == "apply"

\* apply_update (view.rs 25-43): the installer for Install, else the patch
apply_task(update_type) == IF update_type = "Install" THEN "install" ELSE "apply"

\* handler "apply" (main.rs 231-233), apply_update (view.rs 25-43)
HandleApply ==
    /\ rpc = "webview"
    /\ spawned < MaxCommands
    /\ spawned' = spawned + 1
    /\ workers' = run_async(apply_task(update.update_type))
    /\ UNCHANGED <<fsVars, applyVars, verifyVars, otherVars, installed, elevated, update, rpc, run_result,
                   launched, valid, listing, reported>>

\* handler "launch" (main.rs 234-240): the web view ends and run() returns, or
\* the process exits; the threads of the process end with it
HandleLaunch ==
    /\ rpc = "webview"
    /\ IF update.update_type # "Install"
       THEN launched' = TRUE /\ Ended("Ok")
       ELSE UNCHANGED launched /\ Ended("exit(0)")
    /\ workers' = NoWorkers
    /\ UNCHANGED <<fsVars, applyVars, verifyVars, otherVars, installed, elevated, update, valid, listing,
                   spawned, reported>>

\* handler "exit" (main.rs 244-246)
HandleExit ==
    /\ rpc = "webview"
    /\ Ended("exit(0)")
    /\ workers' = NoWorkers
    /\ UNCHANGED <<fsVars, applyVars, verifyVars, otherVars, installed, elevated, update, launched, valid,
                   listing, spawned, reported>>

\* download_with_callback (lib.rs 708-733): the Result<bool, BootstrapError>
\* of download_file becomes a Result<String, String> by format!("{}", ..)
download_with_callback(res) ==
    IF res.ok
    THEN [ok |-> TRUE, text |-> IF res.complete THEN "true" ELSE "false"]
    ELSE [ok |-> FALSE, text |-> res.error]

\* what the task of a worker can return: download_with_callback for a
\* complete download, a short one and a failed one; verify (lib.rs 690-706);
\* apply (lib.rs 737-884); install (lib.rs 889-919)
TaskResults(op) ==
    CASE op = "download" ->
            {download_with_callback(res) :
                res \in {DownloadOk(TRUE), DownloadOk(FALSE), DownloadErr("HttpFailed")}}
      [] op = "verify" ->
            {[ok |-> TRUE, text |-> ""], [ok |-> FALSE, text |-> "SignatureMismatch"]}
      [] op = "apply" ->
            {[ok |-> TRUE, text |-> "Rainway updated!"],
             [ok |-> FALSE, text |-> "InstallationFailed"]}
      [] op = "install" ->
            {[ok |-> TRUE, text |-> "output"],
             [ok |-> FALSE, text |-> "InstallationFailed"]}

\* the callback names the commands of view.rs pass to run_async
Callbacks(op) ==
    CASE op = "download" -> <<"downloadComplete", "downloadFailed">>
      [] op = "verify" -> <<"verificationComplete", "verificationFailed">>
      [] OTHER -> <<"updateComplete", "updateFailed">>

\* format_callback_result (callback.rs 53-62)
format_callback_result(res, callback, error_callback) ==
    IF res.ok
    THEN [fn |-> callback, arg |-> res.text]
    ELSE [fn |-> error_callback, arg |-> res.text]

\* the thread of run_async: the task returns and its callback is dispatched
WorkerReturn ==
    /\ rpc = "webview"
    /\ \E op \in Ops :
          /\ workers[op] > 0
          /\ \E res \in TaskResults(op) :
                /\ workers' = [workers EXCEPT ![op] = @ - 1]
                /\ reported' = reported \cup
                      {format_callback_result(res, Callbacks(op)[1], Callbacks(op)[2])}
    /\ UNCHANGED <<fsVars, applyVars, verifyVars, otherVars, installed, elevated, update, rpc, run_result,
                   launched, valid, listing, spawned>>

\* the states run() can start in
InitRun ==
    /\ installed \in BOOLEAN
    /\ elevated \in BOOLEAN
    /\ install \in IF installed THEN InstallTrees ELSE {NoTree}
    /\ registry_version \in Versions
    /\ posted = NoPost
    /\ pkg = TreeOf({}, "new")
    /\ backup = NoTree
    /\ stage = NoTree
    /\ apc = "idle"
    /\ result = NoResult
    /\ pre = install
    /\ failed_step = "none"
    /\ rollback = "none"
    /\ update = DefaultUpdate
    /\ download = [exists |-> FALSE, digest |-> <<>>]
    /\ vpc = "idle"
    /\ verify_result = NoResult
    /\ InitOther
    /\ rpc = "start"
    /\ run_result = "none"
    /\ launched = FALSE
    /\ valid = "none"
    /\ listing = NoListing
    /\ workers = NoWorkers /\ spawned = 0
    /\ reported = {}

NextRun ==
    \/ RunGuard
    \/ RunDetect
    \/ RunCompat
    \/ RunManifest
    \/ RunValidate
    \/ RunElevate
    \/ HandleDownload
    \/ HandleVerify
    \/ HandleApply
    \/ HandleLaunch
    \/ HandleExit
    \/ WorkerReturn

SpecRun == InitRun /\ [][NextRun]_vars

(***************************************************************************)
(* updater::verify (lib.rs 690-706) over the update types, the hashes a    *)
(* manifest may carry and the files the download may have left.            *)
(***************************************************************************)
\* the characters of the hash strings of a manifest
HexChars == {"1", "a", "A"}

\* the 4-bit values of the digests of a file
DigestValues == {1, 10}

HashStrings == UNION {[1..n -> HexChars] : n \in 0..MaxHexLen}

Digests == [1..MaxHexLen -> DigestValues]

SignatureMismatch == [ok |-> FALSE, error |-> "SignatureMismatch", message |-> ""]

Verified == [ok |-> TRUE, error |-> "none", message |-> ""]

\* verify (lib.rs 690-706): the strings are compared with ==
verify(u, file) ==
    LET local_hash == sha_256(file)
    IN  IF local_hash.some
        THEN IF local_hash.hash = get_hash(u) THEN Verified ELSE SignatureMismatch
        ELSE SignatureMismatch

\* the worker of verify_update (view.rs 7-18) runs updater::verify
VerifyDownload ==
    /\ vpc = "idle"
    /\ vpc' = "done"
    /\ verify_result' = verify(update, download)
    /\ UNCHANGED <<fsVars, applyVars, runVars, otherVars, download>>

InitVerify ==
    /\ installed = TRUE
    /\ elevated = TRUE
    /\ install = NoTree
    /\ registry_version = installed_version
    /\ posted = NoPost
    /\ pkg = TreeOf({}, "new")
    /\ backup = NoTree
    /\ stage = NoTree
    /\ apc = "idle"
    /\ result = NoResult
    /\ pre = install
    /\ failed_step = "none"
    /\ rollback = "none"
    /\ \E t \in {"Install", "Patch"}, ph \in HashStrings, ih \in HashStrings :
          update = set_temp_file(
                      [DefaultUpdate EXCEPT !.update_type = t,
                                            !.manifest.package_hash = ph,
                                            !.manifest.installer_hash = ih])
    /\ download \in {[exists |-> FALSE, digest |-> <<>>]}
                       \cup [exists : {TRUE}, digest : Digests]
    /\ vpc = "idle"
    /\ verify_result = NoResult
    /\ InitOther
    /\ rpc = "webview"
    /\ run_result = "none"
    /\ launched = FALSE
    /\ valid = "none"
    /\ listing = NoListing
    /\ workers = [NoWorkers EXCEPT !["verify"] = 1] /\ spawned = 1
    /\ reported = {}

NextVerify == VerifyDownload

SpecVerify == InitVerify /\ [][NextVerify]_vars

(***************************************************************************)
(* download_file (net/http.rs 63-141), one action per request and one per  *)
(* turn of the loop over the body of the GET response.                     *)
(***************************************************************************)
\* a variant of download_complete that accepts a body longer than announced
download_complete_at_least(downloaded, total) == downloaded >= total

\* http.rs 140: total_downloaded_bytes == total_size
download_complete(downloaded, total) == downloaded = total

\* download_file returns: the worker is done
DownloadReturn(res) ==
    /\ dpc' = "done"
    /\ download_result' = res

\* a variant of DownloadHead that creates the destination file before it
\* looks at the Content-Length
DownloadHead_opens ==
    /\ dpc = "head"
    /\ \/ /\ DownloadReturn(DownloadErr("HttpFailed"))
          /\ UNCHANGED <<total_size, download>>
       \/ /\ DownloadReturn(DownloadErr("RemoteFileMissing"))
          /\ UNCHANGED <<total_size, download>>
       \/ \E content_length \in 0..MaxBytes :
             /\ total_size' = content_length
             /\ IF content_length <= 0
                THEN /\ DownloadReturn(DownloadErr("RemoteFileEmpty"))
                     /\ download' = [download EXCEPT !.exists = TRUE]
                ELSE dpc' = "open" /\ UNCHANGED <<download_result, download>>
    /\ UNCHANGED <<fsVars, applyVars, runVars, guardVars, diskVars, installVars, moreVars,
                   vpc, verify_result, received, total_downloaded_bytes, file_len, progress>>

\* http.rs 75-100: the HEAD request, its status and its Content-Length; a
\* header that is absent or does not parse counts as 0 (unwrap_or(0))
DownloadHead ==
    /\ dpc = "head"
    /\ \/ /\ DownloadReturn(DownloadErr("HttpFailed"))
          /\ UNCHANGED total_size
       \/ /\ DownloadReturn(DownloadErr("RemoteFileMissing"))
          /\ UNCHANGED total_size
       \/ \E content_length \in 0..MaxBytes :
             /\ total_size' = content_length
             /\ IF content_length <= 0
                THEN DownloadReturn(DownloadErr("RemoteFileEmpty"))
                ELSE dpc' = "open" /\ UNCHANGED download_result
    /\ UNCHANGED <<fsVars, applyVars, runVars, guardVars, diskVars, installVars, moreVars, verifyVars, received,
                   total_downloaded_bytes, file_len, progress>>

\* http.rs 102-111: the file is opened for writing and created when missing;
\* a file that is already there keeps its contents (no truncate)
DownloadOpen ==
    /\ dpc = "open"
    /\ \/ /\ download' = [download EXCEPT !.exists = TRUE]
          /\ dpc' = "get"
          /\ UNCHANGED download_result
       \/ /\ DownloadReturn(DownloadErr("HttpFailed"))
          /\ UNCHANGED download
    /\ UNCHANGED <<fsVars, applyVars, runVars, guardVars, diskVars, installVars, moreVars, vpc, verify_result, total_size,
                   received, total_downloaded_bytes, file_len, progress>>

\* http.rs 113-120: the GET request; its status is not looked at
DownloadGet ==
    /\ dpc = "get"
    /\ \/ dpc' = "body" /\ UNCHANGED download_result
       \/ DownloadReturn(DownloadErr("HttpFailed"))
    /\ UNCHANGED <<fsVars, applyVars, runVars, guardVars, diskVars, installVars, moreVars, verifyVars, total_size, received,
                   total_downloaded_bytes, file_len, progress>>

\* http.rs 131-135: the body yields a chunk or an error; write puts a part of
\* the chunk or all of it at the current position of the file, or fails
DownloadChunk ==
    /\ dpc = "body"
    /\ \/ /\ DownloadReturn(DownloadErr("body"))
          /\ UNCHANGED <<download, received, total_downloaded_bytes, file_len, progress>>
       \/ \E chunk \in 1..(MaxBytes - received) :
             /\ received' = received + chunk
             /\ \/ /\ DownloadReturn(DownloadErr("io"))
                   /\ UNCHANGED <<download, total_downloaded_bytes, file_len, progress>>
                \/ \E read_bytes \in 1..chunk, digest \in Digests :
                      /\ total_downloaded_bytes' = total_downloaded_bytes + read_bytes
                      /\ file_len' = IF file_len < total_downloaded_bytes'
                                     THEN total_downloaded_bytes' ELSE file_len
                      /\ download' = [exists |-> TRUE, digest |-> digest]
                      /\ progress' = <<total_size, total_downloaded_bytes'>>
                      /\ UNCHANGED <<dpc, download_result>>
    /\ UNCHANGED <<fsVars, applyVars, runVars, guardVars, diskVars, installVars, moreVars, vpc, verify_result, total_size>>

\* http.rs 131, 137-140: the body has ended; flush, then Ok(downloaded == total)
DownloadEnd ==
    /\ dpc = "body"
    /\ \/ DownloadReturn(DownloadErr("io"))
       \/ DownloadReturn(DownloadOk(download_complete(total_downloaded_bytes, total_size)))
    /\ UNCHANGED <<fsVars, applyVars, runVars, guardVars, diskVars, installVars, moreVars, verifyVars, total_size, received,
                   total_downloaded_bytes, file_len, progress>>

InitDownload ==
    /\ installed = TRUE
    /\ elevated = TRUE
    /\ install = NoTree
    /\ registry_version = installed_version
    /\ posted = NoPost
    /\ pkg = TreeOf({}, "new")
    /\ backup = NoTree
    /\ stage = NoTree
    /\ apc = "idle"
    /\ result = NoResult
    /\ pre = install
    /\ failed_step = "none"
    /\ rollback = "none"
    /\ \E t \in {"Install", "Patch"} :
          update = set_temp_file(
                      [DefaultUpdate EXCEPT !.update_type = t,
                                            !.manifest.package_hash = PackageHash,
                                            !.manifest.installer_hash = InstallerHash])
    /\ \/ /\ download = [exists |-> FALSE, digest |-> <<>>]
          /\ file_len = 0
       \/ /\ download \in [exists : {TRUE}, digest : Digests]
          /\ file_len \in 0..MaxBytes
    /\ vpc = "idle"
    /\ verify_result = NoResult
    /\ rpc = "webview"
    /\ run_result = "none"
    /\ launched = FALSE
    /\ valid = "none"
    /\ listing = NoListing
    /\ workers = [NoWorkers EXCEPT !["download"] = 1] /\ spawned = 1
    /\ reported = {}
    /\ dpc = "head"
    /\ total_size = 0
    /\ received = 0
    /\ total_downloaded_bytes = 0
    /\ progress = <<0, 0>>
    /\ download_result = NoDownloadResult
    /\ IdleGuard
    /\ IdleDisk
    /\ IdleInstall
    /\ IdleTrust
    /\ IdleCare
    /\ IdleHygiene
    /\ IdlePoll

NextDownload ==
    \/ DownloadHead
    \/ DownloadOpen
    \/ DownloadGet
    \/ DownloadChunk
    \/ DownloadEnd

SpecDownload == InitDownload /\ [][NextDownload]_vars

(***************************************************************************)
(* The duplicate-instance guard (rainway.rs 11-23, main.rs 68-72) over     *)
(* several bootstrapper processes.                                         *)
(***************************************************************************)
\* the processes a snapshot of the system lists
RunningProcs == {q \in Procs : procs[q].st \in {"started", "engine", "rejected"}}

\* error_on_duplicate_session (rainway.rs 11-23) in process p for the
\* snapshot get_processes returned (None: the snapshot failed)
error_on_duplicate_session(p, snapshot_ok, process_list) ==
    IF snapshot_ok /\ \E q \in process_list : procs[q].matches /\ q # p
    THEN "BootstrapperExist"
    ELSE "Ok"

\* a bootstrapper process is created; it is listed from now on
StartProcess ==
    \E p \in Procs, matches \in BOOLEAN :
       /\ procs[p].st = "absent"
       /\ procs' = [procs EXCEPT ![p] = [st |-> "started", matches |-> matches]]
       /\ UNCHANGED <<fsVars, applyVars, runVars, verifyVars, dlVars, diskVars, installVars, moreVars>>

\* main.rs 69-72: run() returns the error of the guard or goes on
GuardProcess ==
    \E p \in Procs, snapshot_ok \in BOOLEAN :
       /\ procs[p].st = "started"
       /\ procs' = [procs EXCEPT ![p].st =
                       IF error_on_duplicate_session(p, snapshot_ok, RunningProcs) = "Ok"
                       THEN "engine" ELSE "rejected"]
       /\ UNCHANGED <<fsVars, applyVars, runVars, verifyVars, dlVars, diskVars, installVars, moreVars>>

\* the process ends: run() returned, or main panicked after the error box
ExitProcess ==
    \E p \in Procs :
       /\ procs[p].st \in {"engine", "rejected"}
       /\ procs' = [procs EXCEPT ![p].st = "exited"]
       /\ UNCHANGED <<fsVars, applyVars, runVars, verifyVars, dlVars, diskVars, installVars, moreVars>>

InitGuard ==
    /\ installed = TRUE
    /\ elevated = TRUE
    /\ install = NoTree
    /\ registry_version = installed_version
    /\ posted = NoPost
    /\ pkg = TreeOf({}, "new")
    /\ backup = NoTree
    /\ stage = NoTree
    /\ apc = "idle"
    /\ result = NoResult
    /\ pre = install
    /\ failed_step = "none"
    /\ rollback = "none"
    /\ update = DefaultUpdate
    /\ download = [exists |-> FALSE, digest |-> <<>>]
    /\ vpc = "idle"
    /\ verify_result = NoResult
    /\ rpc = "start"
    /\ run_result = "none"
    /\ launched = FALSE
    /\ valid = "none"
    /\ listing = NoListing
    /\ workers = NoWorkers /\ spawned = 0
    /\ reported = {}
    /\ InitOther

NextGuard ==
    \/ StartProcess
    \/ GuardProcess
    \/ ExitProcess

SpecGuard == InitGuard /\ [][NextGuard]_vars

(***************************************************************************)
(* The patch worker of apply_update next to the handler of the web view:   *)
(* the steps of updater::apply run on the thread run_async spawned while   *)
(* the main thread goes on handling the commands of the page.              *)
(***************************************************************************)
\* a step of the thread that runs updater::apply; the thread lives as long as
\* the process
ApplyWorkerStep ==
    /\ rpc = "webview"
    /\ workers["apply"] > 0
    /\ Next

NextCancel ==
    \/ HandleApply
    \/ ApplyWorkerStep
    \/ HandleLaunch
    \/ HandleExit

SpecCancel == Init /\ [][NextCancel]_vars

(***************************************************************************)
(* The functions of disk.rs called on their own, on a directory drawn from *)
(* a set of trees with plain files, files with ignored names and empty     *)
(* directories.                                                            *)
(***************************************************************************)
\* the file paths of the trees
DiskPaths == PlainPaths \cup IgnoredPaths \cup {<<"boot.log">>}

\* the sets of empty directories a tree may hold besides its files
EmptyDirSets == {{}, {<<"e">>}, {<<"e">>, <<"e", "f">>}}

DiskTrees ==
    {[TreeOf(F, "old") EXCEPT !.dirs = @ \cup E] :
        F \in SUBSET DiskPaths, E \in EmptyDirSets}

\* delete_dir_contents(path, ignored) for the directory at `install`
DeleteContents ==
    /\ disk_op = "none"
    /\ \E out \in delete_dir_contents(install, ignored_files) :
          /\ install' = out.tree
          /\ disk_ok' = out.ok
    /\ disk_op' = "delete"
    /\ UNCHANGED <<backup, stage, pkg, applyVars, runVars, verifyVars, dlVars, guardVars, installVars, moreVars,
                   pre_from, disk_prev>>

\* the source directories of copy_dir and move_dir: absent, or holding new
\* files, some of them with ignored names
SourceTrees == {NoTree} \cup {TreeOf(F, "new") : F \in SUBSET (PlainPaths \cup IgnoredPaths)}

\* copy_dir(from, to, ignored) with `stage` as from and `install` as to
CopyContents ==
    /\ disk_op = "none"
    /\ \E out \in copy_dir(stage, install, ignored_files) :
          /\ stage' = out.from
          /\ install' = out.to
          /\ disk_ok' = out.ok
    /\ disk_op' = "copy"
    /\ UNCHANGED <<backup, pkg, applyVars, runVars, verifyVars, dlVars, guardVars, installVars, moreVars, pre_from,
                   disk_prev>>

\* move_dir(from, to, ignored) with `stage` as from and `install` as to
MoveContents ==
    /\ disk_op = "none"
    /\ \E out \in move_dir(stage, install, ignored_files) :
          /\ stage' = out.from
          /\ install' = out.to
          /\ disk_ok' = out.ok
    /\ disk_op' = "move"
    /\ UNCHANGED <<backup, pkg, applyVars, runVars, verifyVars, dlVars, guardVars, installVars, moreVars, pre_from,
                   disk_prev>>

InitDisk ==
    /\ install \in DiskTrees
    /\ pkg = TreeOf({}, "new")
    /\ backup = NoTree
    /\ stage \in SourceTrees
    /\ apc = "idle"
    /\ result = NoResult
    /\ pre = install
    /\ failed_step = "none"
    /\ rollback = "none"
    /\ registry_version = installed_version
    /\ posted = NoPost
    /\ installed = TRUE
    /\ elevated = TRUE
    /\ update = DefaultUpdate
    /\ download = [exists |-> FALSE, digest |-> <<>>]
    /\ vpc = "idle"
    /\ verify_result = NoResult
    /\ IdleDownload
    /\ IdleGuard
    /\ IdleInstall
    /\ IdleTrust
    /\ IdleCare
    /\ IdleHygiene
    /\ IdlePoll
    /\ disk_op = "none"
    /\ disk_ok = FALSE
    /\ pre_from = stage
    /\ disk_prev = FALSE
    /\ rpc = "start"
    /\ run_result = "none"
    /\ launched = FALSE
    /\ valid = "none"
    /\ listing = NoListing
    /\ workers = NoWorkers /\ spawned = 0
    /\ reported = {}

NextDisk ==
    \/ DeleteContents
    \/ CopyContents
    \/ MoveContents

SpecDisk == InitDisk /\ [][NextDisk]_vars

(***************************************************************************)
(* updater::install (lib.rs 885-919): the installer of a fresh              *)
(* installation is run, then the setup id, the install event and the       *)
(* activation state are recorded.                                          *)
(***************************************************************************)
\* what get_installer_id (lib.rs 930-985) may find in the running executable
InstallerIds == {"chief-1", "chief-2"}

NoInstallPost == [sent |-> FALSE, uuid |-> "", version |-> ""]

\* lib.rs 894-908: Command::new(download_path).args(["/qn"]).output(); the
\* command cannot be executed when the file is missing, and may fail to start
\* when it is there
InstallRun ==
    /\ ipc = "start"
    /\ \E started \in BOOLEAN :
          install_result' =
              IF started /\ download.exists
              THEN [ok |-> TRUE, text |-> "output"]
              ELSE [ok |-> FALSE, text |-> "InstallationFailed"]
    /\ ipc' = "store_installer_id"
    /\ UNCHANGED <<setup_id, setup_state, install_posted>>
    /\ UNCHANGED <<fsVars, applyVars, runVars, verifyVars, dlVars, guardVars, diskVars, moreVars>>

\* store_installer_id (lib.rs 455-466), called at lib.rs 913; the id found
\* is kept for post_install in install_info.id
InstallStoreId ==
    /\ ipc = "store_installer_id"
    /\ \/ \E id \in InstallerIds, written \in BOOLEAN :
             /\ setup_id' = IF written THEN id ELSE setup_id
             /\ install_posted' = [install_posted EXCEPT !.uuid = id]
       \/ UNCHANGED <<setup_id, install_posted>>
    /\ ipc' = "post_install"
    /\ UNCHANGED <<install_result, setup_state>>
    /\ UNCHANGED <<fsVars, applyVars, runVars, verifyVars, dlVars, guardVars, diskVars, moreVars>>

\* post_install (lib.rs 579-594), called at lib.rs 914
InstallPost ==
    /\ ipc = "post_install"
    /\ \E delivered \in BOOLEAN :
          install_posted' =
              IF delivered
              THEN [sent |-> TRUE, uuid |-> install_posted.uuid,
                    version |-> update.install_info.version]
              ELSE install_posted
    /\ ipc' = "store_event"
    /\ UNCHANGED <<install_result, setup_id, setup_state>>
    /\ UNCHANGED <<fsVars, applyVars, runVars, verifyVars, dlVars, guardVars, diskVars, moreVars>>

\* store_event(RainwayAppState::Activate) (lib.rs 468-473), called at
\* lib.rs 915; then install returns `results`
InstallStoreEvent ==
    /\ ipc = "store_event"
    /\ \E written \in BOOLEAN :
          setup_state' = IF written THEN "Activate" ELSE setup_state
    /\ ipc' = "done"
    /\ UNCHANGED <<install_result, setup_id, install_posted>>
    /\ UNCHANGED <<fsVars, applyVars, runVars, verifyVars, dlVars, guardVars, diskVars, moreVars>>

\* the states updater::install is called in: a fresh installation, the
\* manifest fetched, the installer downloaded or not
InitInstall ==
    /\ installed = FALSE
    /\ elevated = TRUE
    /\ install = NoTree
    /\ registry_version \in Versions
    /\ posted = NoPost
    /\ pkg = TreeOf({}, "new")
    /\ backup = NoTree
    /\ stage = NoTree
    /\ apc = "idle"
    /\ result = NoResult
    /\ pre = install
    /\ failed_step = "none"
    /\ rollback = "none"
    /\ \E m \in RemoteManifests :
          update = set_temp_file([DefaultUpdate EXCEPT !.manifest = m])
    /\ download \in {[exists |-> FALSE, digest |-> <<>>],
                     [exists |-> TRUE, digest |-> InstallerHash]}
    /\ vpc = "idle"
    /\ verify_result = NoResult
    /\ IdleDownload
    /\ IdleGuard
    /\ IdleDisk
    /\ IdleTrust
    /\ IdleCare
    /\ IdleHygiene
    /\ IdlePoll
    /\ ipc = "start"
    /\ install_result = [ok |-> FALSE, text |-> "none"]
    /\ setup_id = NoSetupId
    /\ setup_state = "Nothing"
    /\ install_posted = NoInstallPost
    /\ rpc = "webview"
    /\ run_result = "none"
    /\ launched = FALSE
    /\ valid = "none"
    /\ listing = NoListing
    /\ workers = [NoWorkers EXCEPT !["install"] = 1] /\ spawned = 1
    /\ reported = {}

NextInstall ==
    \/ InstallRun
    \/ InstallStoreId
    \/ InstallPost
    \/ InstallStoreEvent

SpecInstall == InitInstall /\ [][NextInstall]_vars

(***************************************************************************)
(* dir_contains_all_files (disk.rs 8-13) called for a directory and a list *)
(* of files, and called again after files were added to the directory or   *)
(* a file of the list was removed from it.                                 *)
(***************************************************************************)
\* the paths the strings of a list of files name
PathsOf(files) == {f.path : f \in files}

\* dir_contains_all_files(dir_path, files) for the directory at `install` and
\* the files of the manifest
ContainsAll ==
    /\ disk_op = "none"
    /\ \E dir_files \in get_dir_files(install) :
          /\ listing' = dir_files
          /\ disk_ok' = dir_contains_all_files(dir_files, update.manifest.files)
    /\ disk_op' = "contains"
    /\ UNCHANGED <<fsVars, applyVars, verifyVars, dlVars, guardVars, installVars, moreVars, pre_from,
                   disk_prev, installed, elevated, update, rpc, run_result, launched, valid,
                   workers, spawned, reported>>

\* files that are not in the list are added to the directory, and
\* dir_contains_all_files is called again
ContainsAllAfterAdding ==
    /\ disk_op = "contains"
    /\ install.exists
    /\ \E added \in SUBSET ((PlainPaths \cup IgnoredPaths)
                              \ (FilesOf(install) \cup PathsOf(update.manifest.files))) :
          /\ added # {}
          /\ install' = [exists |-> TRUE,
                         files |-> [q \in FilesOf(install) \cup added |->
                                       IF q \in added THEN "new" ELSE install.files[q]],
                         dirs |-> install.dirs \cup UNION {Ancestors(q) : q \in added}]
          /\ \E dir_files \in get_dir_files(install') :
                /\ listing' = dir_files
                /\ disk_ok' = dir_contains_all_files(dir_files, update.manifest.files)
    /\ disk_prev' = disk_ok
    /\ disk_op' = "added"
    /\ UNCHANGED <<backup, stage, pkg, applyVars, verifyVars, dlVars, guardVars, installVars, moreVars,
                   pre_from, installed, elevated, update, rpc, run_result, launched, valid,
                   workers, spawned, reported>>

\* one file of the list is removed from the directory, and
\* dir_contains_all_files is called again
ContainsAllAfterRemoving ==
    /\ disk_op = "contains"
    /\ \E removed \in PathsOf(update.manifest.files) \cap FilesOf(install) :
          /\ install' = RemoveFiles(install, {removed})
          /\ \E dir_files \in get_dir_files(install') :
                /\ listing' = dir_files
                /\ disk_ok' = dir_contains_all_files(dir_files, update.manifest.files)
    /\ disk_prev' = disk_ok
    /\ disk_op' = "removed"
    /\ UNCHANGED <<backup, stage, pkg, applyVars, verifyVars, dlVars, guardVars, installVars, moreVars,
                   pre_from, installed, elevated, update, rpc, run_result, launched, valid,
                   workers, spawned, reported>>

InitContains ==
    /\ install \in InstallTrees
    /\ pkg = TreeOf({}, "new")
    /\ backup = NoTree
    /\ stage = NoTree
    /\ apc = "idle"
    /\ result = NoResult
    /\ pre = install
    /\ failed_step = "none"
    /\ rollback = "none"
    /\ registry_version = installed_version
    /\ posted = NoPost
    /\ installed = TRUE
    /\ elevated = TRUE
    /\ \E files \in SUBSET ManifestEntries :
          update = [DefaultUpdate EXCEPT !.manifest.files = files]
    /\ download = [exists |-> FALSE, digest |-> <<>>]
    /\ vpc = "idle"
    /\ verify_result = NoResult
    /\ InitOther
    /\ rpc = "start"
    /\ run_result = "none"
    /\ launched = FALSE
    /\ valid = "none"
    /\ listing = NoListing
    /\ workers = NoWorkers /\ spawned = 0
    /\ reported = {}

NextContains ==
    \/ ContainsAll
    \/ ContainsAllAfterAdding
    \/ ContainsAllAfterRemoving

SpecContains == InitContains /\ [][NextContains]_vars

(***************************************************************************)
(* The temp file between the workers: the download worker writes it        *)
(* (http.rs 102-141), the verify worker hashes it (lib.rs 690-706), the    *)
(* apply worker extracts it (lib.rs 796) and the install worker executes   *)
(* it (lib.rs 894), each on its own thread (callback.rs 5-18).             *)
(***************************************************************************)
\* http.rs 108-113 and 122-131: the file is opened with create, without
\* truncate, and a chunk of the body is written at the current position
TrustDownloadWrite ==
    /\ rpc = "webview"
    /\ workers["download"] > 0
    /\ \E d \in Digests : download' = [exists |-> TRUE, digest |-> d]
    /\ UNCHANGED <<fsVars, applyVars, runVars, vpc, verify_result, dlVars, guardVars, diskVars,
                   installVars, moreVars>>

\* download_file returns and the worker dispatches its callback
TrustDownloadReturn ==
    /\ rpc = "webview"
    /\ workers["download"] > 0
    /\ workers' = [workers EXCEPT !["download"] = @ - 1]
    /\ \E res \in TaskResults("download") :
          reported' = reported \cup
              {format_callback_result(res, Callbacks("download")[1], Callbacks("download")[2])}
    /\ UNCHANGED <<fsVars, applyVars, verifyVars, dlVars, guardVars, diskVars, installVars,
                   moreVars, installed, elevated, update, rpc, run_result, launched, valid,
                   listing, spawned>>

\* the verify worker: updater::verify hashes the temp file as it is now
TrustVerify ==
    /\ rpc = "webview"
    /\ workers["verify"] > 0
    /\ workers' = [workers EXCEPT !["verify"] = @ - 1]
    /\ LET res == verify(update, download)
       IN  /\ verify_result' = res
           /\ verified' = IF res.ok THEN download.digest ELSE verified
           /\ reported' = reported \cup
                 {format_callback_result([ok |-> res.ok, text |-> res.error],
                      Callbacks("verify")[1], Callbacks("verify")[2])}
    /\ UNCHANGED <<fsVars, applyVars, vpc, download, dlVars, guardVars, diskVars, installVars,
                   pollVars, careVars, hygiene, extracted, installed, elevated, update, rpc, run_result, launched,
                   valid, listing, spawned>>

\* the apply worker reaches unzip(&download_path, ..) (lib.rs 796), or the
\* install worker Command::new(download_path) (lib.rs 894): the temp file is
\* read as it is now
TrustApplyRead ==
    /\ rpc = "webview"
    /\ workers[apply_task(update.update_type)] > 0
    /\ workers' = [workers EXCEPT ![apply_task(update.update_type)] = @ - 1]
    /\ extracted' = IF download.exists
                    THEN [read |-> TRUE, digest |-> download.digest, accepted |-> verified]
                    ELSE extracted
    /\ \E res \in TaskResults(apply_task(update.update_type)) :
          /\ ~download.exists => ~res.ok
          /\ reported' = reported \cup
                {format_callback_result(res, Callbacks("apply")[1], Callbacks("apply")[2])}
    /\ UNCHANGED <<fsVars, applyVars, verifyVars, dlVars, guardVars, diskVars, installVars,
                   pollVars, careVars, hygiene, verified, installed, elevated, update, rpc, run_result, launched,
                   valid, listing, spawned>>

\* the web view is up, the manifest fetched; the temp file may be there from
\* an earlier download
InitTrust ==
    /\ installed \in BOOLEAN
    /\ elevated = TRUE
    /\ install = NoTree
    /\ registry_version = installed_version
    /\ posted = NoPost
    /\ pkg = TreeOf({}, "new")
    /\ backup = NoTree
    /\ stage = NoTree
    /\ apc = "idle"
    /\ result = NoResult
    /\ pre = install
    /\ failed_step = "none"
    /\ rollback = "none"
    /\ update = set_temp_file(
                   [DefaultUpdate EXCEPT
                       !.update_type = IF installed THEN "Patch" ELSE "Install",
                       !.manifest.version = "2.0",
                       !.manifest.package_hash = PackageHash,
                       !.manifest.installer_hash = InstallerHash])
    /\ download \in {[exists |-> FALSE, digest |-> <<>>]}
                       \cup [exists : {TRUE}, digest : Digests]
    /\ vpc = "idle"
    /\ verify_result = NoResult
    /\ InitOther
    /\ rpc = "webview"
    /\ run_result = "none"
    /\ launched = FALSE
    /\ valid = "none"
    /\ listing = NoListing
    /\ workers = NoWorkers /\ spawned = 0
    /\ reported = {}

NextTrust ==
    \/ HandleDownload
    \/ HandleVerify
    \/ HandleApply
    \/ TrustDownloadWrite
    \/ TrustDownloadReturn
    \/ TrustVerify
    \/ TrustApplyRead

SpecTrust == InitTrust /\ [][NextTrust]_vars

(***************************************************************************)
(* download_with_callback of the threaded variant (src/updater.rs          *)
(* 220-257): a thread polls the shared UpdateDownloadProgress while the    *)
(* calling thread runs download_file (src/net/http.rs 68-109) and then      *)
(* joins the poller.                                                       *)
(***************************************************************************)
\* download_file returned `res`; the caller goes on to child.join()
ThreadedReturn(res) ==
    /\ threaded_result' = res
    /\ tpc' = "join"

ThreadedErr(e) == [ok |-> FALSE, text |-> e]

\* updater.rs 252-254: .map(|output| format!("'{}'", output))
ThreadedOk(complete) == [ok |-> TRUE, text |-> IF complete THEN "'true'" ELSE "'false'"]

\* http.rs 73-93: the HEAD request, its status and its Content-Length, the
\* temp file is opened; http.rs 97-99: total_bytes is stored under the write
\* lock
ThreadedHead ==
    /\ tpc = "head"
    /\ \/ \E e \in {"HttpFailed", "InstallerDownloadFailed", "IOError"} :
             /\ ThreadedReturn(ThreadedErr(e))
             /\ UNCHANGED record
       \/ \E total_size_ \in 1..MaxBytes :
             /\ record' = [record EXCEPT !.total_bytes = total_size_]
             /\ tpc' = "get"
             /\ UNCHANGED threaded_result
    /\ UNCHANGED <<ppc, polled, body>>
    /\ UNCHANGED <<fsVars, applyVars, runVars, verifyVars, dlVars, guardVars, diskVars,
                   installVars, trustVars, careVars, hygiene>>

\* http.rs 101: request.send()?; the response will deliver `sent` bytes
ThreadedGet ==
    /\ tpc = "get"
    /\ \/ /\ ThreadedReturn(ThreadedErr("HttpFailed"))
          /\ UNCHANGED body
       \/ \E sent \in 0..MaxBytes :
             /\ body' = sent
             /\ tpc' = "copy"
             /\ UNCHANGED threaded_result
    /\ UNCHANGED <<ppc, polled, record>>
    /\ UNCHANGED <<fsVars, applyVars, runVars, verifyVars, dlVars, guardVars, diskVars,
                   installVars, trustVars, careVars, hygiene>>

\* DownloadProgress::read (http.rs 15-27): the record is changed only when
\* the inner read returned Ok(n)
DownloadProgress_read(r, n, failed) ==
    IF failed
    THEN r
    ELSE [r EXCEPT !.state = IF r.state = "None" THEN "Downloading" ELSE r.state,
                   !.downloaded_bytes = r.downloaded_bytes + n]

\* one turn of the loop of io::copy (http.rs 106-109): a read of the
\* response through DownloadProgress, then a write to the temp file
ThreadedCopy ==
    /\ tpc = "copy"
    /\ \/ \* the read failed
          /\ record' = DownloadProgress_read(record, 0, TRUE)
          /\ ThreadedReturn(ThreadedErr("IOError"))
          /\ UNCHANGED body
       \/ \* n bytes were read; the write failed, or the loop goes on
          \E n \in 1..body :
             /\ record' = DownloadProgress_read(record, n, FALSE)
             /\ body' = body - n
             /\ \/ ThreadedReturn(ThreadedErr("IOError"))
                \/ UNCHANGED <<tpc, threaded_result>>
       \/ \* the end of the body: Ok(0), copy returns the bytes it wrote
          /\ body = 0
          /\ record' = DownloadProgress_read(record, 0, FALSE)
          /\ ThreadedReturn(ThreadedOk(record.downloaded_bytes = record.total_bytes))
          /\ UNCHANGED body
    /\ UNCHANGED <<ppc, polled>>
    /\ UNCHANGED <<fsVars, applyVars, runVars, verifyVars, dlVars, guardVars, diskVars,
                   installVars, trustVars, careVars, hygiene>>

\* updater.rs 255-256: child.join() returns once the thread has ended
ThreadedJoin ==
    /\ tpc = "join"
    /\ ppc = "exited"
    /\ tpc' = "done"
    /\ UNCHANGED <<ppc, polled, record, body, threaded_result>>
    /\ UNCHANGED <<fsVars, applyVars, runVars, verifyVars, dlVars, guardVars, diskVars,
                   installVars, trustVars, careVars, hygiene>>

\* the test that ends the loop of the polling thread (updater.rs 235-244)
PollerLeaves(r) ==
    \/ r.faulted
    \/ r.state = "Downloading" /\ r.total_bytes = r.downloaded_bytes

\* one turn of the loop of the polling thread (updater.rs 231-249)
Poll ==
    /\ ppc = "polling"
    /\ IF PollerLeaves(record)
       THEN ppc' = "exited" /\ UNCHANGED polled
       ELSE polled' = <<record.total_bytes, record.downloaded_bytes>> /\ UNCHANGED ppc
    /\ UNCHANGED <<tpc, record, body, threaded_result>>
    /\ UNCHANGED <<fsVars, applyVars, runVars, verifyVars, dlVars, guardVars, diskVars,
                   installVars, trustVars, careVars, hygiene>>

\* download_with_callback was called: the polling thread is spawned and
\* download_file is entered
InitPoll ==
    /\ installed = FALSE
    /\ elevated = TRUE
    /\ install = NoTree
    /\ registry_version = installed_version
    /\ posted = NoPost
    /\ pkg = TreeOf({}, "new")
    /\ backup = NoTree
    /\ stage = NoTree
    /\ apc = "idle"
    /\ result = NoResult
    /\ pre = install
    /\ failed_step = "none"
    /\ rollback = "none"
    /\ update = DefaultUpdate
    /\ download = [exists |-> FALSE, digest |-> <<>>]
    /\ vpc = "idle"
    /\ verify_result = NoResult
    /\ IdleDownload
    /\ IdleGuard
    /\ IdleDisk
    /\ IdleInstall
    /\ IdleTrust
    /\ IdleCare
    /\ IdleHygiene
    /\ tpc = "head"
    /\ ppc = "polling"
    /\ record = DefaultProgress
    /\ body = 0
    /\ threaded_result = [ok |-> FALSE, text |-> "none"]
    /\ polled = <<>>
    /\ rpc = "webview"
    /\ run_result = "none"
    /\ launched = FALSE
    /\ valid = "none"
    /\ listing = NoListing
    /\ workers = [NoWorkers EXCEPT !["download"] = 1] /\ spawned = 1
    /\ reported = {}

NextPoll ==
    \/ ThreadedHead
    \/ ThreadedGet
    \/ ThreadedCopy
    \/ ThreadedJoin
    \/ Poll

SpecPoll == InitPoll /\ [][NextPoll]_vars

(***************************************************************************)
(* Self-update of the bootstrapper: swap_files (disk.rs 261-294) and       *)
(* ActiveUpdate::try_self_care (lib.rs 596-611). A path holds a file of    *)
(* some version, a directory, or nothing.                                  *)
(***************************************************************************)
\* number of launches of the bootstrapper
MaxLaunches == 2

\* the versions of the bootstrapper executable
ExeVersions == {"v1", "v2"}

SiblingContents == {"absent", "dir"} \cup ExeVersions

\* Path::is_file
IsFile(fs, n) == fs[n] \in ExeVersions

\* std::fs::rename(a, b) when it succeeds
Renamed(fs, a, b) == [fs EXCEPT ![b] = fs[a], ![a] = "absent"]

SwapRes(ok, fs) == [ok |-> ok, files |-> fs]

\* disk.rs 279-280: {parent of from}\{file name of from}_old; for the running
\* executable that is {exe}_old of the install path only when the executable
\* runs from the install path
OldFileOf(same) == IF same THEN "old" ELSE "side_old"

\* swap_files (disk.rs 261-294): Err when from or to is missing or is not a
\* file (262-277); from is renamed to old_file (281); to is renamed to from,
\* and when that fails old_file is renamed back to from (282-285), whose
\* failure is the only error returned from there; then Ok(()) (286). The
\* parent of the path of an executable always exists (287-293 is not taken).
swap_files(fs, from, to, old_file) ==
    IF ~IsFile(fs, from) \/ ~IsFile(fs, to)
    THEN {SwapRes(FALSE, fs)}
    ELSE LET moved == Renamed(fs, from, old_file)
         IN  {SwapRes(FALSE, fs)}
             \cup (IF fs[old_file] = "dir"
                   THEN {}
                   ELSE {SwapRes(TRUE, Renamed(moved, to, from)),
                         SwapRes(TRUE, Renamed(moved, old_file, from)),
                         SwapRes(FALSE, moved)})

\* swap_files(current executable, {exe}_new) called on its own
SwapFiles ==
    /\ disk_op = "none"
    /\ \E out \in swap_files(siblings, "current", "new", OldFileOf(same_dir)) :
          /\ siblings' = out.files
          /\ disk_ok' = out.ok
    /\ disk_op' = "swap"
    /\ UNCHANGED <<fsVars, applyVars, runVars, verifyVars, dlVars, guardVars, installVars,
                   trustVars, pollVars, hygiene, pre_from, disk_prev, siblings_pre,
                   same_dir, care>>

InitSwap ==
    /\ install = NoTree
    /\ pkg = TreeOf({}, "new")
    /\ backup = NoTree
    /\ stage = NoTree
    /\ apc = "idle"
    /\ result = NoResult
    /\ pre = install
    /\ failed_step = "none"
    /\ rollback = "none"
    /\ registry_version = installed_version
    /\ posted = NoPost
    /\ installed = TRUE
    /\ elevated = TRUE
    /\ update = DefaultUpdate
    /\ download = [exists |-> FALSE, digest |-> <<>>]
    /\ vpc = "idle"
    /\ verify_result = NoResult
    /\ IdleDownload
    /\ IdleGuard
    /\ IdleDisk
    /\ siblings \in [SiblingNames -> SiblingContents]
    /\ siblings["side_old"] = "absent"
    /\ siblings_pre = siblings
    /\ same_dir = TRUE
    /\ care = <<>>
    /\ IdleInstall
    /\ IdleTrust
    /\ IdlePoll
    /\ IdleHygiene
    /\ rpc = "start"
    /\ run_result = "none"
    /\ launched = FALSE
    /\ valid = "none"
    /\ listing = NoListing
    /\ workers = NoWorkers /\ spawned = 0
    /\ reported = {}

NextSwap == SwapFiles

SpecSwap == InitSwap /\ [][NextSwap]_vars

\* try_self_care (lib.rs 596-611): {exe}_old of the install path is removed
\* when it exists (603-605); Ok when there is no {exe}_new (606-608);
\* otherwise swap_files(current_exe, {exe}_new) (609)
try_self_care(fs, same) ==
    LET removed == [fs EXCEPT !["old"] = "absent"]
        after_old == IF fs["old"] = "absent"
                     THEN {SwapRes(TRUE, fs)}
                     ELSE {SwapRes(FALSE, fs)}
                          \cup (IF fs["old"] = "dir" THEN {} ELSE {SwapRes(TRUE, removed)})
        then_swap(r) == IF ~r.ok
                        THEN {r}
                        ELSE IF r.files["new"] = "absent"
                             THEN {r}
                             ELSE swap_files(r.files, "current", "new", OldFileOf(same))
    IN  {SwapRes(FALSE, fs)} \cup UNION {then_swap(r) : r \in after_old}

\* a launch of the bootstrapper calls try_self_care
SelfCare ==
    /\ Len(care) < MaxLaunches
    /\ \E out \in try_self_care(siblings, same_dir) :
          /\ siblings' = out.files
          /\ care' = Append(care, out.ok)
    /\ UNCHANGED <<fsVars, applyVars, runVars, verifyVars, dlVars, guardVars, diskVars,
                   installVars, trustVars, pollVars, hygiene, siblings_pre, same_dir>>

\* the executable is running, so it is a file; an earlier launch or an earlier
\* download may have left {exe}_old and {exe}_new
InitCare ==
    /\ install = NoTree
    /\ pkg = TreeOf({}, "new")
    /\ backup = NoTree
    /\ stage = NoTree
    /\ apc = "idle"
    /\ result = NoResult
    /\ pre = install
    /\ failed_step = "none"
    /\ rollback = "none"
    /\ registry_version = installed_version
    /\ posted = NoPost
    /\ installed = TRUE
    /\ elevated = TRUE
    /\ update = DefaultUpdate
    /\ download = [exists |-> FALSE, digest |-> <<>>]
    /\ vpc = "idle"
    /\ verify_result = NoResult
    /\ IdleDownload
    /\ IdleGuard
    /\ IdleDisk
    /\ siblings \in [SiblingNames -> SiblingContents]
    /\ siblings["current"] \in ExeVersions
    /\ same_dir \in BOOLEAN
    /\ same_dir => siblings["side_old"] = "absent"
    /\ siblings_pre = siblings
    /\ care = <<>>
    /\ IdleInstall
    /\ IdleTrust
    /\ IdlePoll
    /\ IdleHygiene
    /\ rpc = "start"
    /\ run_result = "none"
    /\ launched = FALSE
    /\ valid = "none"
    /\ listing = NoListing
    /\ workers = NoWorkers /\ spawned = 0
    /\ reported = {}

NextCare == SelfCare

SpecCare == InitCare /\ [][NextCare]_vars

(***************************************************************************)
(* Properties of updater::apply.                                           *)
(***************************************************************************)
\* the files of a tree that do not carry an ignored name, with their contents
PlainFiles(t) == Restrict(t.files, NotIgnored(t, ignored_files))

\* the files of a tree that carry an ignored name, with their contents
KeptFiles(t) == Restrict(t.files, FilesOf(t) \ NotIgnored(t, ignored_files))

\* C1: when the clear step or the commit step has failed, apply returns an
\* InstallationFailed error and never Ok, whether the rollback then
\* succeeded or failed.
C1_FailedStepNeverOk ==
    (apc = "done" /\ failed_step # "none")
        => (~result.ok /\ result.error = "InstallationFailed")

C1_Witness ==
    /\ apc = "done"
    /\ failed_step = "commit"
    /\ rollback = "ok"
    /\ FilesOf(pre) # {}

\* C2: when the clear or the commit step failed and the rollback move
\* returned Ok, the not ignored files of the install path are those it held
\* when apply was entered.
C2_RollbackRestores ==
    (apc = "done" /\ rollback = "ok") => PlainFiles(install) = PlainFiles(pre)

\* C3 as stated: the error returned after a failed rollback differs from
\* every error apply returns after a successful rollback.
C3_FatalDistinguishable ==
    (apc = "done" /\ rollback = "failed")
        => result \notin {rollback_result(s, TRUE) : s \in {"clear", "commit"}}

\* C3 as amended: after a failed clear or commit step apply returns
\* InstallationFailed with the message of that step, the same value whether
\* the rollback succeeded or failed.
C3_SameErrorEitherWay ==
    (apc = "done" /\ failed_step # "none")
        => result = InstallationFailed(IF failed_step = "clear"
                                       THEN "delete_error" ELSE "update_error")

C3_Witness ==
    /\ apc = "done"
    /\ failed_step = "clear"
    /\ rollback = "failed"
    /\ install # pre

\* C4: the install path is as it was on entry until the backup and the
\* extraction have both succeeded, and an apply that ends because the stale
\* folders, the backup or the extraction failed returns InstallationFailed
\* with the install path unchanged.
C4_UntouchedBeforeClear ==
    /\ apc \in {"idle", "clean_stage", "clean_backup", "backup", "unzip", "clear"}
          => install = pre
    /\ (apc = "done" /\ failed_step = "none" /\ ~result.ok)
          => (install = pre /\ result.error = "InstallationFailed")

C4_Witness ==
    /\ apc = "done"
    /\ result = InstallationFailed("unzip_error")
    /\ PlainFiles(pre) # EmptyFiles
    /\ PlainFiles(backup) = PlainFiles(pre)

\* C5: after apply returned Ok the not ignored files of the install path are
\* exactly the files of the package, and the ignored files present on entry
\* are still present.
C5_InstallIsPackage ==
    (apc = "done" /\ result.ok)
        => /\ PlainFiles(install) = pkg.files
           /\ KeptFiles(install) = KeptFiles(pre)

\* C6: no step of apply removes or rewrites a file of the install path whose
\* name is one of the ignored names.
C6_IgnoredFilesSurvive ==
    [][\A p \in FilesOf(install) :
          IsIgnored(p, ignored_files)
              => (p \in FilesOf(install') /\ install'.files[p] = install.files[p])]_vars

C6_Witness ==
    /\ apc = "done"
    /\ rollback = "failed"
    /\ <<"sub", "boot.exe">> \in FilesOf(install)
    /\ <<"sub", "boot.exe">> \in FilesOf(pkg)
    /\ PlainFiles(install) # PlainFiles(pre)

(***************************************************************************)
(* Properties of run() and of the handler of the web view.                 *)
(***************************************************************************)
\* C7: a verify worker is started only after a download reported success,
\* and an apply or install worker only after a verify reported success.
C7_StagesInOrder ==
    [][/\ workers'["verify"] > workers["verify"]
            => \E r \in reported : r.fn = "downloadComplete"
       /\ (workers'["apply"] > workers["apply"]
              \/ workers'["install"] > workers["install"])
            => \E r \in reported : r.fn = "verificationComplete"]_vars

\* a hash string with its letters in upper case
to_ascii_uppercase(h) == [i \in 1..Len(h) |-> IF h[i] = "a" THEN "A" ELSE h[i]]

\* C8: verify returns Ok exactly when the temp file can be hashed and its
\* digest, in hex, equals the hash of the manifest for the update type, the
\* case of the letters set aside.
C8_VerifyIffDigestMatches ==
    vpc = "done"
        => (verify_result.ok
              <=> /\ download.exists
                  /\ to_ascii_uppercase(format_upper_hex(download.digest))
                        = to_ascii_uppercase(get_hash(update)))

\* the installation as the manifest describes it
ManifestFilesPresent ==
    \A f \in update.manifest.files : f.path \in FilesOf(install)

\* every string of the manifest is one of the strings of the listing
ManifestFilesListed ==
    /\ listing.ok
    /\ \A f \in update.manifest.files : f \in listing.files

VersionMatches == update.install_info.version = update.manifest.version

\* C9 as stated: validate returns false exactly when a file of the manifest
\* is missing from the install path or the recorded version differs from the
\* version of the manifest.
C9_InvalidIffMissingOrVersion ==
    valid # "none"
        => (valid = "outdated" <=> (~ManifestFilesPresent \/ ~VersionMatches))

\* C9 as amended: validate returns false exactly when the install path could
\* not be listed, a string of the manifest is not among the relative paths
\* of the listing, or the recorded version differs from the version of the
\* manifest; a missing file makes it false whatever the version.
C9_InvalidIffUnlistedOrVersion ==
    /\ valid # "none"
          => (valid = "outdated" <=> (~ManifestFilesListed \/ ~VersionMatches))
    /\ (valid # "none" /\ ~ManifestFilesPresent) => valid = "outdated"

C9_Witness ==
    /\ valid = "outdated"
    /\ listing.ok
    /\ VersionMatches
    /\ ~ManifestFilesPresent

\* C10 as stated: once the manifest is fetched for an installed application
\* whose recorded version equals the version of the manifest and whose
\* manifest files are all present, no download, verify or apply worker is
\* started, and the run ends with the application launched.
C10_CurrentNeverUpdates ==
    (installed /\ update.install_info.loaded /\ VersionMatches
        /\ ManifestFilesPresent /\ valid # "none")
        => /\ spawned = 0
           /\ rpc = "ended" /\ launched /\ run_result = "Ok"

\* C10 as amended: the same, for the runs in which validate could list the
\* install path and found every string of the manifest in the listing.
C10_ListedCurrentNeverUpdates ==
    (installed /\ update.install_info.loaded /\ VersionMatches
        /\ ManifestFilesListed /\ valid # "none")
        => /\ valid = "valid"
           /\ spawned = 0
           /\ rpc = "ended" /\ launched /\ run_result = "Ok"

C10_Witness ==
    /\ valid = "valid"
    /\ rpc = "ended"
    /\ launched
    /\ update.manifest.files # {}

(***************************************************************************)
(* Properties of download_file.                                            *)
(***************************************************************************)
\* C11 as stated: download_file returns Ok(true) exactly when the bytes it
\* wrote are as many as the Content-Length of the HEAD response, and whenever
\* the transfer stops short of that length it returns Ok(false), not an error.
C11_ShortBodyIsOkFalse ==
    dpc = "done"
        => /\ download_result = DownloadOk(TRUE)
                <=> (download_result.ok /\ total_downloaded_bytes = total_size)
           /\ (received < total_size
                 /\ download_result.error
                       \notin {"HttpFailed", "RemoteFileMissing", "RemoteFileEmpty", "io"})
                => download_result = DownloadOk(FALSE)

\* C11 as amended: Ok(true) exactly when the body ended without an error and
\* the bytes written are as many as the Content-Length of the HEAD response;
\* a body that ends without an error before that many bytes are written gives
\* Ok(false); an error of the body, of write or of flush gives Err.
C11_CompleteIffWrittenEqualsLength ==
    dpc = "done"
        => /\ download_result = DownloadOk(TRUE)
                <=> (download_result.ok /\ total_downloaded_bytes = total_size)
           /\ (download_result.ok /\ total_downloaded_bytes # total_size)
                => download_result = DownloadOk(FALSE)
           /\ ~download_result.ok
                => download_result.error \in
                      {"HttpFailed", "RemoteFileMissing", "RemoteFileEmpty", "body", "io"}

C11_Witness ==
    /\ dpc = "done"
    /\ download_result = DownloadOk(FALSE)
    /\ total_downloaded_bytes > 0
    /\ total_downloaded_bytes < total_size

\* C12: a download that came up short is never reported to the page through
\* the callback of a completed download.
C12_ShortReadReportedAsFailure ==
    \A r \in reported : r.fn = "downloadComplete" => r.arg = "true"

\* C13: whenever the handler can start a download, verify or apply worker,
\* or one has been started, the update type is Install exactly when no
\* install information was loaded and Patch exactly when it was.
C13_TypeMatchesInstallInfo ==
    (rpc = "webview" \/ spawned > 0)
        => /\ update.update_type = "Install" <=> ~update.install_info.loaded
           /\ update.update_type = "Patch" <=> update.install_info.loaded

C13_Witness ==
    /\ workers["apply"] > 0
    /\ update.update_type = "Patch"
    /\ update.install_info.loaded
    /\ installed

\* C14: whenever the handler can start a download, verify or apply worker,
\* or one has been started, temp_name is the hash of the artifact of the
\* update type followed by its extension, and while the web view runs the
\* ActiveUpdate the workers read it from does not change.
C14_TempNameDerived ==
    /\ []((rpc = "webview" \/ spawned > 0)
            => update.temp_name =
                  (IF update.update_type = "Install"
                   THEN update.manifest.installer_hash \o <<".exe">>
                   ELSE update.manifest.package_hash \o <<".zip">>))
    /\ [][rpc = "webview" => update' = update]_vars

C14_Witness ==
    /\ workers["download"] > 0
    /\ workers["install"] > 0
    /\ update.update_type = "Install"
    /\ update.temp_name = InstallerHash \o <<".exe">>

\* C15: the "apply" command starts the installer, and not the patch
\* procedure, when the update type is Install, and the patch procedure, and
\* not the installer, when it is Patch; and with no install information the
\* update type is Install.
C15_ApplyFollowsUpdateType ==
    /\ [][/\ workers'["install"] > workers["install"]
                => (update.update_type = "Install"
                      /\ workers'["apply"] = workers["apply"])
          /\ workers'["apply"] > workers["apply"]
                => (update.update_type = "Patch"
                      /\ workers'["install"] = workers["install"])]_vars
    /\ []((rpc = "webview" /\ ~update.install_info.loaded)
            => update.update_type = "Install")

C15_Witness ==
    /\ workers["install"] > 0
    /\ workers["apply"] = 0
    /\ ~update.install_info.loaded
    /\ update.update_type = "Install"
    /\ spawned = 1

(***************************************************************************)
(* Properties of the duplicate-instance guard.                             *)
(***************************************************************************)
\* C16: at most one bootstrapper process at a time is past the guard, and a
\* process whose guard ran while another bootstrapper was running ends with
\* BootstrapperExist.
C16_OneProcessPastGuard ==
    Cardinality({p \in Procs : procs[p].st = "engine"}) <= 1

(***************************************************************************)
(* Properties of the end of updater::apply.                                *)
(***************************************************************************)
\* C17 as stated: whenever apply has returned Ok, the version of the manifest
\* is the version in the uninstall key and the update notification is sent.
C17_VersionPersistedOnOk ==
    (apc = "done" /\ result.ok)
        => (registry_version = update.manifest.version /\ posted.sent)

\* C18: after apply returned Ok neither the staging folder nor the backup
\* folder of the version exists any more.
C18_NoTempFoldersAfterOk ==
    (apc = "done" /\ result.ok) => (~stage.exists /\ ~backup.exists)

\* C19: the process does not end through the "exit" or "launch" command
\* while apply is between the start of the clear step and its return.
C19_NoExitDuringApply ==
    rpc = "ended" => apc \notin {"commit", "rollback", "hygiene"}

(***************************************************************************)
(* Properties of the functions of disk.rs.                                 *)
(***************************************************************************)
\* C20: after delete_dir_contents returned Ok, no file whose name is not
\* ignored is left below the directory, and every file whose name is ignored
\* is still there with its contents.
C20_DeleteLeavesOnlyIgnored ==
    (disk_op = "delete" /\ disk_ok)
        => /\ \A p \in FilesOf(install) : IsIgnored(p, ignored_files)
           /\ KeptFiles(install) = KeptFiles(pre)

\* the files of a tree whose names are not ignored, with their contents
PlainFilesOf(t) == Restrict(t.files, NotIgnored(t, ignored_files))

\* C21: after copy_dir or move_dir returned Ok, the files of `to` whose names
\* are not ignored are exactly those of `from`, with the same contents, also
\* when `to` held stale files; after move_dir no such file is left in `from`.
C21_TargetMirrorsSource ==
    (disk_op \in {"copy", "move"} /\ disk_ok)
        => /\ PlainFilesOf(install) = PlainFilesOf(pre_from)
           /\ disk_op = "move" => NotIgnored(stage, ignored_files) = {}

(***************************************************************************)
(* Properties of run() and of the commands of the page, second part.       *)
(***************************************************************************)
\* the positions of run() before get_manifest has returned
BeforeManifest == {"start", "detect", "compat", "manifest"}

C23_NothingRecordedOnFailure ==
    (ipc = "done" /\ ~install_result.ok)
        => /\ install_result.text = "InstallationFailed"
           /\ setup_id = NoSetupId
           /\ setup_state = "Nothing"
           /\ ~install_posted.sent

(***************************************************************************)
(* Properties of dir_contains_all_files.                                   *)
(***************************************************************************)
\* C24 as stated: when dir_contains_all_files was true for a directory and a
\* list, it is true again after files that are not in the list were added,
\* and false after a file of the list was removed.
C24_MonotoneInContents ==
    disk_prev
        => /\ disk_op = "added" => disk_ok
           /\ disk_op = "removed" => ~disk_ok

\* C24 as amended: the same, where the call after the addition could list
\* the directory: a walk that reports an entry as an error makes the
\* function false whatever the directory holds.
C24_MonotoneWhenListed ==
    disk_prev
        => /\ (disk_op = "added" /\ listing.ok) => disk_ok
           /\ disk_op = "removed" => ~disk_ok

C24_Witness ==
    /\ disk_prev
    /\ disk_op = "added"
    /\ listing.ok
    /\ Cardinality(update.manifest.files) > 0

(***************************************************************************)
(* Properties of the rollback of updater::apply.                           *)
(***************************************************************************)
\* the rollback step left the file p of the install path in place: it was
\* neither removed nor replaced by its copy in the backup folder
StaysInPlace(p) ==
    /\ p \in NotIgnored(install, ignored_files)
    /\ p \in FilesOf(install')
    /\ p \in FilesOf(backup) => p \in FilesOf(backup')

\* C25: when the backup folder holds every file of the install path, the
\* clear step failed on a file that cannot be deleted and the file stays in
\* place during the rollback, the rollback puts back every file the clear
\* step had deleted.
C25_RollbackRestoresDeleted ==
    [][(apc = "rollback" /\ failed_step = "clear" /\ apc' = "done"
          /\ (\A q \in NotIgnored(pre, ignored_files) :
                q \in FilesOf(backup) /\ backup.files[q] = pre.files[q])
          /\ (\E p \in FilesOf(install) : StaysInPlace(p)))
        => \A q \in FilesOf(pre) \ FilesOf(install) :
              q \in FilesOf(install') /\ install'.files[q] = pre.files[q]]_vars

(***************************************************************************)
(* Properties of the worker threads of the commands.                       *)
(***************************************************************************)
\* C26: at most one worker executes apply at any time, and no download or
\* verify worker runs while an apply worker is running.
C26_ApplyRunsAlone ==
    /\ workers["apply"] <= 1
    /\ workers["apply"] > 0 => (workers["download"] = 0 /\ workers["verify"] = 0)

\* C27: the temp file apply extracts or install executes is the one verify
\* accepted: when the file is read after a verify that returned Ok, its
\* contents are those verify hashed.
C27_ExtractedIsVerified ==
    (extracted.read /\ extracted.accepted # NoDigest)
        => extracted.digest = extracted.accepted

(***************************************************************************)
(* Properties of the threaded download_with_callback.                      *)
(***************************************************************************)
\* C28: download_with_callback always returns. Once download_file has
\* returned nothing writes the shared record any more, so the polling thread
\* leaves its loop, and join returns, exactly when the test of its loop holds
\* by then: whatever download_file returned, the thread has ended or its
\* test holds.
C28_PollerLeavesAfterReturn ==
    tpc = "join" => (ppc = "exited" \/ PollerLeaves(record))

\* C29: a fault of download_file sets the shared record to the failed
\* condition, and the state of the record otherwise only changes from None to
\* Downloading, when bytes arrive.
C29_FaultSetsFailed ==
    /\ []((tpc \in {"join", "done"} /\ ~threaded_result.ok)
            => (record.faulted \/ record.state = "Failed"))
    /\ [][record'.state # record.state
            => (record.state = "None" /\ record'.state = "Downloading"
                  /\ tpc = "copy")]_vars

(***************************************************************************)
(* Properties of the first steps of updater::apply.                        *)
(***************************************************************************)
\* apply returned because a folder of an earlier attempt could not be removed
CleanFailed ==
    /\ apc = "done"
    /\ result \in {InstallationFailed("stage_clean_error"),
                   InstallationFailed("backup_clean_error")}

\* C30: when apply starts the backup copy the backup folder does not exist,
\* and when it starts the extraction the staging folder does not exist; when
\* the removal of a folder an earlier attempt left fails, apply returns
\* InstallationFailed, the install path is as it was, and nothing was copied
\* to the backup folder or extracted to the staging folder.
C30_StaleFoldersRemovedFirst ==
    /\ apc = "backup" => ~backup.exists
    /\ apc = "unzip" => ~stage.exists
    /\ apc \in {"clean_stage", "clean_backup"} => install = pre
    /\ CleanFailed
          => /\ install = pre
             /\ FilesOf(backup) \subseteq FilesOf(StaleTree)
             /\ FilesOf(stage) \subseteq FilesOf(StaleTree)
             /\ result = InstallationFailed("stage_clean_error") => stage.exists
             /\ result = InstallationFailed("backup_clean_error")
                   => (backup.exists /\ ~stage.exists)

\* the removal of the stale backup folder failed after the stale staging
\* folder had been removed
C30_Witness ==
    /\ CleanFailed
    /\ result = InstallationFailed("backup_clean_error")
    /\ backup.exists
    /\ install.exists /\ FilesOf(install) # {}

(***************************************************************************)
(* Properties of the version apply records.                                *)
(***************************************************************************)
\* C31: whenever apply has returned an error, from any step and with or
\* without a rollback, the version in the registry is the one it was; the
\* version is written only after the commit step has succeeded, so a changed
\* version means apply returned Ok.
C31_VersionKeptOnError ==
    /\ (apc = "done" /\ ~result.ok) => registry_version = installed_version
    /\ registry_version # installed_version
          => (apc = "done" /\ result.ok /\ failed_step = "none"
                /\ registry_version = update.manifest.version)

\* apply returned an error after the commit step failed and the rollback ran
C31_Witness ==
    /\ apc = "done"
    /\ ~result.ok
    /\ failed_step = "commit"
    /\ rollback # "none"
    /\ registry_version = installed_version

(***************************************************************************)
(* Properties of the installation apply leaves, seen by validate.          *)
(***************************************************************************)
\* C32: after apply returned Ok for a package that holds every path of the
\* files of the manifest, dir_contains_all_files(install path, files of the
\* manifest) is true when the install path can be listed, so the next run
\* does not ask for the update again because of missing files; also when a
\* file of the package has the name of an ignored file.
C32_InstalledFilesValidate ==
    (apc = "done" /\ result.ok
       /\ \A file \in update.manifest.files : file.path \in FilesOf(pkg))
        => \E dir_files \in get_dir_files(install) :
              /\ dir_files.ok
              /\ validate_files(dir_files, update.manifest.files)

(***************************************************************************)
(* Properties of the first step of download_file.                          *)
(***************************************************************************)
\* download_file returned RemoteFileMissing or RemoteFileEmpty
RemoteFileRefused(res) ==
    ~res.ok /\ res.error \in {"RemoteFileMissing", "RemoteFileEmpty"}

\* C33: download_file returns RemoteFileMissing for a HEAD response that is
\* not 2xx and RemoteFileEmpty for a Content-Length that is zero, absent or
\* does not parse; both are returned from the HEAD step, before the
\* destination file is created or opened and before the GET request: the
\* file is as it was, nothing of a body was received or written, and no
\* progress was reported.
C33_RefusedBeforeOpenAndGet ==
    /\ [][RemoteFileRefused(download_result')
            => /\ dpc = "head" /\ dpc' = "done"
               /\ download' = download
               /\ file_len' = file_len
               /\ (download_result'.error = "RemoteFileEmpty" => total_size' = 0)]_vars
    /\ [](RemoteFileRefused(download_result)
            => /\ dpc = "done"
               /\ received = 0
               /\ total_downloaded_bytes = 0
               /\ progress = <<0, 0>>)
    /\ []((dpc \in {"open", "get", "body"}) => total_size > 0)

\* RemoteFileEmpty was returned and there is no destination file
C33_Witness ==
    /\ dpc = "done"
    /\ download_result = DownloadErr("RemoteFileEmpty")
    /\ total_size = 0
    /\ ~download.exists

(***************************************************************************)
(* Properties of the functions of disk.rs, second part.                    *)
(***************************************************************************)
\* C34: delete_dir_contents, copy_dir and move_dir return Ok only if every
\* file whose name is not ignored and every directory under the source was
\* processed: after Ok of a delete none of these files is left, and after Ok
\* of a copy or a move each of them, and each directory, is in the target.
C34_OkMeansEveryEntryProcessed ==
    /\ (disk_op = "delete" /\ disk_ok)
          => \A p \in NotIgnored(pre, ignored_files) : p \notin FilesOf(install)
    /\ (disk_op \in {"copy", "move"} /\ disk_ok)
          => /\ \A p \in NotIgnored(pre_from, ignored_files) : p \in FilesOf(install)
             /\ pre_from.dirs \subseteq install.dirs

\* C35: after delete_dir_contents returned Ok no empty directory is left
\* below the directory, also not one that became empty only because its empty
\* subdirectories were removed.
C35_NoEmptyDirectoryLeft ==
    (disk_op = "delete" /\ disk_ok /\ install.exists)
        => \A d \in install.dirs : ~IsEmptyDir(install, d)

\* C36: delete_dir_contents removes only what is inside the directory and
\* never the directory itself, also when every file in it was deleted and no
\* file with an ignored name remains.
C36_RootIsKept ==
    (disk_op = "delete" /\ pre.exists) => install.exists

(***************************************************************************)
(* Properties of the last steps of updater::apply.                         *)
(***************************************************************************)
\* C37: a failure of unblock_path, take_ownership_of_dir or
\* grant_full_permissions never makes apply return an error and never starts
\* a rollback: these steps run only after the commit succeeded, and once they
\* ran apply has returned Ok, whatever they returned.
C37_HygieneNeverFails ==
    /\ apc = "hygiene" => (failed_step = "none" /\ rollback = "none")
    /\ hygiene.ran
          => /\ apc = "done"
             /\ result = Updated
             /\ failed_step = "none"
             /\ rollback = "none"

\* one of the three steps failed and apply returned Ok
C37_Witness ==
    /\ hygiene.ran
    /\ ~hygiene.clean
    /\ apc = "done"
    /\ result.ok

(***************************************************************************)
(* Properties of the self-update of the bootstrapper.                      *)
(***************************************************************************)
\* swap_files was entered with a file at `from` and a file at `to`
SwapEntered ==
    /\ disk_op = "swap"
    /\ IsFile(siblings_pre, "current")
    /\ IsFile(siblings_pre, "new")

\* C38: swap_files(from, to) returns Ok only when the swap took place: the
\* file at `from` is the former `to` and the former `from` is at {from}_old;
\* so a second rename that failed is reported as an error also when the
\* original was renamed back; and a file is at `from` on every return, unless
\* the rename that restores it failed.
C38_OkMeansSwapped ==
    /\ (disk_op = "swap" /\ disk_ok)
          => /\ siblings["current"] = siblings_pre["new"]
             /\ siblings[OldFileOf(same_dir)] = siblings_pre["current"]
             /\ siblings["new"] = "absent"
    /\ (SwapEntered /\ ~IsFile(siblings, "current"))
          => /\ ~disk_ok
             /\ siblings[OldFileOf(same_dir)] = siblings_pre["current"]
             /\ siblings["new"] = siblings_pre["new"]

\* C39: when {exe}_new exists at a launch, try_self_care renames the
\* executable to {exe}_old and {exe}_new to the executable, and the following
\* launch deletes {exe}_old: after two launches whose try_self_care returned
\* Ok, neither {exe}_old nor {exe}_new exists and the executable is the
\* former {exe}_new.
C39_TwoLaunchesCompleteTheSwap ==
    (Len(care) = 2 /\ care[1] /\ care[2] /\ IsFile(siblings_pre, "new"))
        => /\ siblings["current"] = siblings_pre["new"]
           /\ siblings["new"] = "absent"
           /\ siblings["old"] = "absent"
           /\ siblings[OldFileOf(same_dir)] = "absent"

====
